---- MODULE Spec2Model ----
(***************************************************************************)
(* Model of claw (src/src/main.rs): the batch crawl scrape_prices, the    *)
(* streaming crawl scrape_stream with its bounded channel and consumer,   *)
(* the dedup register register_hit, the pager helpers normalize_pager and *)
(* build_page_url, and the fetch loop retry_fetch_html.                    *)
(*                                                                         *)
(* One crawl run is one behaviour of Spec.  Every await of the code is a   *)
(* step: the robots.txt request, the warmup request, each attempt of       *)
(* retry_fetch_html, each send on the channel.  What the network answers   *)
(* is chosen by the environment at the step that awaits it.                *)
(*                                                                         *)
(* A page document is the sequence of its li.EntityList-item cards for     *)
(* which parse_card returns Some(hit), in document order, each with the    *)
(* flag `nested` (the card lies under section.EntityList                   *)
(* ul.EntityList-items, so the primary selection finds it).                *)
(* reqwest::Client::builder() with the constant options of the code is     *)
(* taken to succeed.                                                       *)
(*                                                                         *)
(* The functions of the crawl are also studied on their own, each in a     *)
(* specification that draws its arguments from bounded sets: SpecRegister  *)
(* (register_hit), SpecFetch (retry_fetch_html), SpecPager                 *)
(* (normalize_pager, build_page_url), SpecPrice (normalize_price) and      *)
(* SpecCard (parse_card).  SpecChannel is a crawl run of many one-card     *)
(* pages, long enough to fill the channel.                                 *)
(*                                                                         *)
(* SpecRuns steps two crawl runs concurrently, SpecModes a batch run and a *)
(* streaming run on one feed, and FairSpec is a crawl run under the        *)
(* fairness that termination needs.                                        *)
(***************************************************************************)
EXTENDS Integers, Sequences, FiniteSets, TLC

VARIABLES
    mode,           \* "batch" (scrape_prices) | "stream" (scrape_stream), or the
                    \* function studied on its own: "register" | "fetch" |
                    \* "pager" | "price" | "card", or "runs" | "modes" for
                    \* several runs side by side
    arg,            \* the argument of the function studied on its own
    start_url,      \* the caller's URL
    page_range,     \* Option<usize>: <<>> or <<n>>
    pc,             \* position of the run
    base,           \* normalize_pager(url).0
    page,           \* current page number
    pages,          \* pages counter (pages_visited)
    max_pages,      \* page_range.unwrap_or(HARD_PAGE_CAP)
    prev_page_url,  \* Option<Url>
    page_url,       \* URL of the page being fetched
    referer,        \* referer of the page fetch in progress
    hits,           \* batch: Vec<PriceHit>            (register: the output)
    seen_ids,       \* batch: HashSet<String>          (register: the seen set)
    last_next_url,  \* batch: Option<String>
    total_hits,     \* stream: running total
    page_hits,      \* stream: hits of the page just parsed
    attempts,       \* retry_fetch_html: attempts
    last_err,       \* retry_fetch_html: Option<Error>
    profile,        \* retry_fetch_html: Profile
    html,           \* the document retry_fetch_html returned
    fetch_error,    \* the error retry_fetch_html returned
    result,         \* batch: what scrape_prices returned
    chan,           \* stream: events buffered in the mpsc channel
    rx_open,        \* stream: the receiver has not been dropped
    received,       \* stream: events the consumer has taken
    pending,        \* stream: the event of the send in progress
    after,          \* stream: position after the send in progress
    sent,           \* history: events the channel accepted
    served,         \* history: documents of the successful page fetches
    counts,         \* history: hit count of each parsed page
    nRobots,        \* history: robots.txt requests issued
    nWarmup,        \* history: warmup requests issued
    warm_req,       \* history: the warmup request issued last
    nFetch,         \* history: calls of retry_fetch_html
    robotsOut,      \* history: how the robots.txt request ended
    warmFailed,     \* history: the warmup before the request in flight failed
    calls,          \* history of the calls (register_hit, normalize_price,
                    \* parse_card) or attempts (retry_fetch_html) of the
                    \* function studied on its own
    runs            \* the locals of each of the crawl runs that execute
                    \* concurrently

vars == << mode, arg, start_url, page_range, pc, base, page, pages, max_pages,
           prev_page_url, page_url, referer, hits, seen_ids, last_next_url,
           total_hits, page_hits, attempts, last_err, profile, html,
           fetch_error, result, chan, rx_open, received, pending, after,
           sent, served, counts, nRobots, nWarmup, warm_req, nFetch,
           robotsOut, warmFailed, calls, runs >>

---------------------------------------------------------------------------
(* Bounds of the model *)

\* listing identifiers of a feed are 0 (the empty identifier) .. MaxId
MaxId == 1
\* the feed serves at most MaxHits cards in all; later pages have none
MaxHits == 2
\* caller-supplied page caps are 0 .. MaxCap
MaxCap == 2
\* register_hit sequences have at most MaxCalls calls
MaxCalls == 4
\* and their identifiers are 0 (the empty identifier) .. MaxRegId
MaxRegId == 2
\* titles that tell two hits with one identifier apart: 1 .. MaxTitle
MaxTitle == 2
\* the page cap of the stream that fills the channel (more than its capacity)
MaxStreamPages == 33
\* the query of a URL given to the pager has at most MaxQuery pieces
MaxQuery == 2
\* page numbers given to build_page_url are 1 .. MaxPage
MaxPage == 3
\* a raw price text given to normalize_price has at most MaxPriceLen characters
MaxPriceLen == 4
\* the price and description texts of a card have at most MaxCardText characters
MaxCardText == 2

(* Constants of the program *)

HARD_PAGE_CAP == 200
MAX_ATTEMPTS == 5
MIN_BODY_LEN == 4000
CHANNEL_CAPACITY == 32

ALLOWED == {"www.njuskalo.hr", "njuskalo.hr"}

---------------------------------------------------------------------------
(* Values *)

\* Option<T> is a sequence of length at most one
None == << >>
Some(x) == << x >>

\* anyhow::Error: its message; NoErr stands for no error
NoErr == ""

\* Url: parsed is FALSE when Url::parse fails; host "" when host_str() is None;
\* query is the sequence of raw key=value pieces of the query string
MkUrl(parsed, scheme, host, path, query) ==
    [parsed |-> parsed, scheme |-> scheme, host |-> host, path |-> path,
     query |-> query]
NoUrl == MkUrl(FALSE, "", "", "", << >>)

\* format!("{}://{}", scheme, host)
Origin(scheme, host) == MkUrl(TRUE, scheme, host, "", << >>)

Pair(k, v) == [k |-> k, v |-> v]

---------------------------------------------------------------------------
(* Pager helpers: normalize_pager, build_page_url *)

\* form_urlencoded::parse of one raw piece: percent-decoding, '+' is a space
Decode(s) ==
    CASE s = "p%61ge" -> "page"
      [] s = "%32"    -> "2"
      [] s = "+2"     -> " 2"
      [] OTHER        -> s

\* form_urlencoded serialisation of one decoded piece: a space becomes '+'
Encode(s) ==
    CASE s = " 2" -> "+2"
      [] OTHER    -> s

\* str::parse::<usize>(): decimal digits with an optional leading '+'; -1 is Err
ParseUsize(s) ==
    CASE s = "0"  -> 0
      [] s = "1"  -> 1
      [] s = "2"  -> 2
      [] s = "3"  -> 3
      [] s = "02" -> 2
      [] s = "+2" -> 2
      [] OTHER    -> -1

Max(a, b) == IF a >= b THEN a ELSE b

\* the loop over q.split('&'): the last piece "page=<usize>" sets start_page
RECURSIVE StartPageFrom(_, _, _)
StartPageFrom(q, i, start_page) ==
    IF i > Len(q) THEN start_page
    ELSE IF q[i].k = "page" /\ ParseUsize(q[i].v) >= 0
         THEN StartPageFrom(q, i + 1, Max(ParseUsize(q[i].v), 1))
         ELSE StartPageFrom(q, i + 1, start_page)

\* query_pairs(): the decoded pairs, in order
QueryPairs(q) == [i \in 1..Len(q) |-> Pair(Decode(q[i].k), Decode(q[i].v))]

\* query_pairs_mut().clear().extend_pairs(qp): the pairs serialised again
Serialize(qp) == [i \in 1..Len(qp) |-> Pair(Encode(qp[i].k), Encode(qp[i].v))]

NotPageKey(kv) == kv.k # "page"

normalize_pager(url) ==
    [base |-> [url EXCEPT !.query =
                   Serialize(SelectSeq(QueryPairs(url.query), NotPageKey))],
     start_page |-> StartPageFrom(url.query, 1, 1)]

\* mutant: the query of the base is replaced, not extended
build_page_url_page_only(b, p) ==
    [b EXCEPT !.query = Serialize(<< Pair("page", ToString(p)) >>)]

build_page_url(b, p) ==
    [b EXCEPT !.query =
        Serialize(Append(QueryPairs(b.query), Pair("page", ToString(p))))]

---------------------------------------------------------------------------
(* Parsing helpers: normalize_price, extract_sqm_from_li, parse_card.
   A text is the sequence of its characters.  An f64 is the decimal number
   m / 10^e, held with the least e; texts are short enough for every number
   to be exact.  The spellings of infinity and NaN and exponents, which
   str::parse::<f64>() also reads, do not occur in the texts studied. *)

DigitChars == {"0", "1", "2", "3", "4", "5", "6", "7", "8", "9"}
IsDigit(c) == c \in DigitChars
IsDot(c) == c = "."
NotDot(c) == c # "."
DigitVal(c) ==
    CASE c = "0" -> 0 [] c = "1" -> 1 [] c = "2" -> 2 [] c = "3" -> 3
      [] c = "4" -> 4 [] c = "5" -> 5 [] c = "6" -> 6 [] c = "7" -> 7
      [] c = "8" -> 8 [] c = "9" -> 9

RECURSIVE DigitsValue(_)
DigitsValue(ds) ==
    IF ds = << >> THEN 0
    ELSE DigitsValue(SubSeq(ds, 1, Len(ds) - 1)) * 10 + DigitVal(ds[Len(ds)])

RECURSIVE Num(_, _)
Num(m, e) == IF e > 0 /\ m % 10 = 0 THEN Num(m \div 10, e - 1)
             ELSE [m |-> m, e |-> e]

\* str::parse::<f64>(): an optional sign, digits with at most one '.', at
\* least one digit; None is Err
ParseF64(tok) ==
    LET signed == tok # << >> /\ tok[1] \in {"-", "+"}
        body   == IF signed THEN Tail(tok) ELSE tok
        ds     == SelectSeq(body, IsDigit)
        dots   == SelectSeq(body, IsDot)
        dot    == CHOOSE i \in 1..Len(body) : body[i] = "."
        e      == IF dots = << >> THEN 0 ELSE Len(body) - dot
        m      == DigitsValue(ds)
    IN  IF ds = << >> \/ Len(dots) > 1 \/ Len(ds) + Len(dots) # Len(body)
        THEN None
        ELSE Some(Num(IF signed /\ tok[1] = "-" THEN 0 - m ELSE m, e))

\* the pieces of a text between the characters of seps, empty ones included
RECURSIVE Split(_, _, _, _)
Split(txt, seps, i, cur) ==
    IF i > Len(txt) THEN << cur >>
    ELSE IF txt[i] \in seps THEN << cur >> \o Split(txt, seps, i + 1, << >>)
    ELSE Split(txt, seps, i + 1, Append(cur, txt[i]))

NotEmpty(tok) == tok # << >>
\* str::split_whitespace(): the non-empty pieces between spaces
split_whitespace(txt) == SelectSeq(Split(txt, {" "}, 1, << >>), NotEmpty)

\* replace(',', ".")
CommaToDot(txt) == [i \in 1..Len(txt) |-> IF txt[i] = "," THEN "." ELSE txt[i]]

\* find_map(|t| t.parse::<f64>().ok()) after the map f of each token
RECURSIVE FindF64(_, _)
FindF64(toks, i) ==
    IF i > Len(toks) THEN None
    ELSE IF ParseF64(toks[i]) # None THEN ParseF64(toks[i])
    ELSE FindF64(toks, i + 1)

Lower(c) == CASE c = "K" -> "k" [] c = "N" -> "n" [] OTHER -> c

normalize_price(txt) ==
    LET cur == IF \E i \in 1..Len(txt) : txt[i] = "€" THEN Some("EUR")
               ELSE IF \E i \in 1..(Len(txt) - 1) :
                          Lower(txt[i]) = "k" /\ Lower(txt[i + 1]) = "n"
                    THEN Some("HRK")
                    ELSE None
        kept == [i \in 1..Len(txt) |->
                    IF IsDigit(txt[i]) \/ txt[i] \in {",", "."} THEN txt[i]
                    ELSE " "]
        digits == CommaToDot(SelectSeq(kept, NotDot))
    IN  IF ~\E i \in 1..Len(txt) : IsDigit(txt[i])
        THEN [n |-> None, cur |-> cur]
        ELSE [n |-> FindF64(split_whitespace(digits), 1), cur |-> cur]

\* the first token of the description text that is a number, '.' dropped
\* and ',' made '.' in each token; desc is None when the selector finds no
\* element
CleanTokens(toks) ==
    [i \in 1..Len(toks) |-> CommaToDot(SelectSeq(toks[i], NotDot))]
extract_sqm_from_li(desc) ==
    IF desc = None THEN None
    ELSE FindF64(CleanTokens(Split(desc[1], {" ", ",", ";"}, 1, << >>)), 1)

\* p / s
Ratio(pn, sq) == [num |-> pn, den |-> sq]

\* mutant: the guard is s >= 0.0
price_per_m2_not_negative(price_numeric, sqm) ==
    IF price_numeric # None /\ sqm # None /\ sqm[1].m >= 0
    THEN Some(Ratio(price_numeric[1], sqm[1]))
    ELSE None

\* match (price_numeric, sqm) { (Some(p), Some(s)) if s > 0.0 => Some(p / s), _ => None }
price_per_m2(price_numeric, sqm) ==
    IF price_numeric # None /\ sqm # None /\ sqm[1].m > 0
    THEN Some(Ratio(price_numeric[1], sqm[1]))
    ELSE None

\* a card: the listing URL its link joins to ("" when there is none), the
\* trimmed text of its price element ("" when there is none), and the text
\* of the first description element under li and under the scope
Card(listing_url, raw_price, desc_li, desc_scope) ==
    [listing_url |-> listing_url, raw_price |-> raw_price,
     desc_li |-> desc_li, desc_scope |-> desc_scope]

parse_card(card) ==
    IF card.listing_url = "" \/ card.raw_price = << >> THEN None
    ELSE LET np  == normalize_price(card.raw_price)
             li  == extract_sqm_from_li(card.desc_li)
             sqm == IF li # None THEN li
                    ELSE extract_sqm_from_li(card.desc_scope)
         IN  Some([listing_url |-> card.listing_url,
                   raw_price |-> card.raw_price,
                   price_numeric |-> np.n, currency |-> np.cur,
                   sqm |-> sqm,
                   price_per_m2 |-> price_per_m2(np.n, sqm)])

---------------------------------------------------------------------------
(* Hits, cards, documents *)

Ids == 0..MaxId
\* PriceHit: id 0 is the empty identifier
Hit(id, title) == [id |-> id, title |-> title]
Hits == {Hit(i, t) : i \in 0..MaxRegId, t \in 1..MaxTitle}

\* a card of a fetched document: the hit parse_card makes of it
Cards == {[hit |-> Hit(i, 1), nested |-> n] : i \in Ids, n \in BOOLEAN}
DocsUpTo(n) == UNION {[1..k -> Cards] : k \in 0..n}

IsNested(card) == card.nested
\* doc.select(section.EntityList) / ul.EntityList-items / li.EntityList-item
PrimaryCards(doc) == SelectSeq(doc, IsNested)
\* doc.select(li.EntityList-item)
AllCards(doc) == doc

HitsOf(cards) == [i \in 1..Len(cards) |-> cards[i].hit]

---------------------------------------------------------------------------
(* Dedup register *)

\* mutant: the is_empty() test is missing, the empty identifier is deduplicated
register_hit_no_empty_test(hit, hs, seen) ==
    IF hit.id \in seen
    THEN [ok |-> FALSE, hits |-> hs, seen |-> seen]
    ELSE [ok |-> TRUE, hits |-> Append(hs, hit), seen |-> seen \cup {hit.id}]

register_hit(hit, hs, seen) ==
    IF hit.id # 0 /\ hit.id \in seen
    THEN [ok |-> FALSE, hits |-> hs, seen |-> seen]
    ELSE [ok |-> TRUE, hits |-> Append(hs, hit),
          seen |-> IF hit.id # 0 THEN seen \cup {hit.id} ELSE seen]

\* one selection loop of scrape_prices: register each hit, count the accepted
RECURSIVE RegisterLoop(_, _, _)
RegisterLoop(hs, i, st) ==
    IF i > Len(hs) THEN st
    ELSE LET r == register_hit(hs[i], st.hits, st.seen)
         IN  RegisterLoop(hs, i + 1,
                 [hits |-> r.hits, seen |-> r.seen,
                  page_count |-> IF r.ok THEN st.page_count + 1
                                 ELSE st.page_count])

\* the card parsing of scrape_prices: the primary selection, then every
\* li.EntityList-item when the primary selection added nothing
BatchParse(doc, hs, seen) ==
    LET first == RegisterLoop(HitsOf(PrimaryCards(doc)), 1,
                     [hits |-> hs, seen |-> seen, page_count |-> 0])
    IN  IF first.page_count = 0
        THEN RegisterLoop(HitsOf(AllCards(doc)), 1, first)
        ELSE first

\* the card parsing of scrape_stream: no register
StreamParse(doc) ==
    LET first == HitsOf(PrimaryCards(doc))
    IN  IF first = << >> THEN HitsOf(AllCards(doc)) ELSE first

---------------------------------------------------------------------------
(* Compliance gate *)

\* mutant: the allow-list test is missing
GateError_no_allow_list(url, parse_msg) ==
    IF ~url.parsed THEN parse_msg
    ELSE IF url.host = "" THEN "url has no host"
    ELSE NoErr

\* Url::parse, host_str, the allow-list: the error of the gate, NoErr if none
GateError(url, parse_msg) ==
    IF ~url.parsed THEN parse_msg
    ELSE IF url.host = "" THEN "url has no host"
    ELSE IF url.host \notin ALLOWED THEN "domain not in whitelist"
    ELSE NoErr

\* what reqwest::get(robots_url) can come to: a transport error, a response
\* whose body cannot be read, a policy that allows the URL, one that does not
RobotsOutcomes == {"net_error", "no_body", "allow", "disallow"}

\* mutant: a robots.txt that cannot be fetched forbids everything
robots_txt_fail_closed(out) ==
    IF out = "allow" THEN "User-agent: * Allow: /"
    ELSE IF out = "no_body" THEN ""
    ELSE "User-agent: * Disallow: /"

\* match reqwest::get(..) { Ok(rsp) => rsp.text().unwrap_or_default(),
\*                          Err(_) => String::new() }
robots_txt(out) ==
    IF out \in {"net_error", "no_body"} THEN ""
    ELSE IF out = "allow" THEN "User-agent: * Allow: /"
    ELSE "User-agent: * Disallow: /"

\* mutant: the verdict of the matcher is ignored
one_agent_allowed_always(txt) == TRUE

\* DefaultMatcher::one_agent_allowed_by_robots(txt, "Mozilla", url)
one_agent_allowed_by_robots(txt) == txt # "User-agent: * Disallow: /"

RobotsError == "robots.txt disallows this URL"

\* what the history keeps of the robots.txt request
Recorded(out) == IF out \in {"net_error", "disallow"} THEN out ELSE "answered"

---------------------------------------------------------------------------
(* Fetch engine *)

Flip(p) == IF p = "Desktop" THEN "Mobile" ELSE "Desktop"

\* a GET request: its target, and the profile and referer of base_headers
Get(url, prof, ref) == [url |-> url, profile |-> prof, referer |-> ref]
NoGet == Get(NoUrl, "", NoUrl)

\* mutant: the warmup is made with the Mobile profile
warmup_hit_mobile(o) == Get(o, "Mobile", o)

\* warmup_hit: client.get(origin).headers(base_headers(Profile::Desktop, origin))
warmup_hit(o) == Get(o, "Desktop", o)

\* a response body: its length, whether it contains "EntityList-item", and
\* the cards it parses to
Body(len, marker, doc) == [len |-> len, marker |-> marker, doc |-> doc]
\* Err(e) of send(): a transport error with its message
Failed(e) == [kind |-> "err", error |-> e, status |-> 0,
              body |-> Body(0, FALSE, << >>)]
\* Ok(rsp) of send(), with rsp.status() and the body rsp.text() gives
Response(status, body) ==
    [kind |-> "ok", error |-> NoErr, status |-> status, body |-> body]

\* mutant: a body of exactly the minimum length is accepted
ValidBody_at_least(body) == body.len >= MIN_BODY_LEN /\ body.marker

\* if len > 4000 && text.contains("EntityList-item")
ValidBody(body) == body.len > MIN_BODY_LEN /\ body.marker

\* mutant: a rejected body makes the call forget the transport error
retry_fetch_html_forgets(att, prof, lerr, resp) ==
    IF resp.kind = "ok" /\ ValidBody(resp.body)
    THEN [status |-> "ok", attempts |-> att, profile |-> prof,
          last_err |-> lerr, error |-> NoErr, backoff |-> FALSE]
    ELSE LET prof2 == IF resp.kind = "ok" THEN Flip(prof) ELSE prof
             lerr2 == IF resp.kind = "ok" THEN None
                      ELSE Some(resp.error)
         IN  IF att < MAX_ATTEMPTS
             THEN [status |-> "retry", attempts |-> att + 1, profile |-> prof2,
                   last_err |-> lerr2, error |-> NoErr, backoff |-> TRUE]
             ELSE [status |-> "err", attempts |-> att, profile |-> prof2,
                   last_err |-> lerr2,
                   error |-> IF lerr2 = None
                             THEN "failed to fetch page after retries"
                             ELSE lerr2[1],
                   backoff |-> TRUE]

\* mutant: the loop runs while attempts <= 5
retry_fetch_html_six_attempts(att, prof, lerr, resp) ==
    IF resp.kind = "ok" /\ ValidBody(resp.body)
    THEN [status |-> "ok", attempts |-> att, profile |-> prof,
          last_err |-> lerr, error |-> NoErr, backoff |-> FALSE]
    ELSE LET prof2 == IF resp.kind = "ok" THEN Flip(prof) ELSE prof
             lerr2 == IF resp.kind = "ok" THEN lerr
                      ELSE Some(resp.error)
         IN  IF att <= MAX_ATTEMPTS
             THEN [status |-> "retry", attempts |-> att + 1, profile |-> prof2,
                   last_err |-> lerr2, error |-> NoErr, backoff |-> TRUE]
             ELSE [status |-> "err", attempts |-> att, profile |-> prof2,
                   last_err |-> lerr2,
                   error |-> IF lerr2 = None
                             THEN "failed to fetch page after retries"
                             ELSE lerr2[1],
                   backoff |-> TRUE]

\* one turn of the while loop of retry_fetch_html, from the response of the
\* attempt in flight to the next request or the return; backoff tells that
\* the turn slept 600..1500 ms
retry_fetch_html(att, prof, lerr, resp) ==
    IF resp.kind = "ok" /\ ValidBody(resp.body)
    THEN [status |-> "ok", attempts |-> att, profile |-> prof,
          last_err |-> lerr, error |-> NoErr, backoff |-> FALSE]
    ELSE LET prof2 == IF resp.kind = "ok" THEN Flip(prof) ELSE prof
             lerr2 == IF resp.kind = "ok" THEN lerr
                      ELSE Some(resp.error)
         IN  IF att < MAX_ATTEMPTS
             THEN [status |-> "retry", attempts |-> att + 1, profile |-> prof2,
                   last_err |-> lerr2, error |-> NoErr, backoff |-> TRUE]
             ELSE [status |-> "err", attempts |-> att, profile |-> prof2,
                   last_err |-> lerr2,
                   error |-> IF lerr2 = None
                             THEN "failed to fetch page after retries"
                             ELSE lerr2[1],
                   backoff |-> TRUE]

RECURSIVE CardsIn(_)
CardsIn(docs) == IF docs = << >> THEN 0 ELSE Len(Head(docs)) + CardsIn(Tail(docs))

\* the bodies the site can answer with: rejected ones, and valid ones whose
\* document has cards only while the feed has cards left
InvalidBodies ==
    {Body(l, m, << >>) : l \in {MIN_BODY_LEN, MIN_BODY_LEN + 1},
                         m \in BOOLEAN} \ {Body(MIN_BODY_LEN + 1, TRUE, << >>)}
ValidBodies ==
    {Body(MIN_BODY_LEN + 1, TRUE, d) :
        d \in DocsUpTo(MaxHits - CardsIn(served))}
\* in a crawl run every answer has status 200: the status is only logged
Responses ==
    {Failed("connection reset")}
        \cup {Response(200, b) : b \in InvalidBodies \cup ValidBodies}

---------------------------------------------------------------------------
(* Results and events *)

Meta(page_count, total, next_url) ==
    [page_count |-> page_count, total_hits |-> total, next_url |-> next_url]
NoResult == [status |-> "", hits |-> << >>, meta |-> Meta(0, 0, None),
             error |-> NoErr]
Ok(hs, meta) == [status |-> "ok", hits |-> hs, meta |-> meta, error |-> NoErr]
Failure(e) == [status |-> "err", hits |-> << >>, meta |-> Meta(0, 0, None),
               error |-> e]

NoEvent == [type |-> "", origin |-> NoUrl, max_pages |-> 0, page |-> 0,
            url |-> NoUrl, count |-> 0, hits |-> << >>, total |-> 0,
            pages |-> 0, error |-> NoErr]
\* sse_event("start", {"origin":..,"max_pages":..})
StartEvent(origin, cap) ==
    [NoEvent EXCEPT !.type = "start", !.origin = origin, !.max_pages = cap]
\* sse_event("page", {"page":..,"url":..,"count":..,"hits":..,"total_hits_so_far":..})
PageEvent(p, url, count, hs, total) ==
    [NoEvent EXCEPT !.type = "page", !.page = p, !.url = url,
                    !.count = count, !.hits = hs, !.total = total]
\* sse_event("done", {"pages":..,"total_hits":..})
DoneEvent(n, total) ==
    [NoEvent EXCEPT !.type = "done", !.pages = n, !.total = total]
\* sse_event("error", {"error":..})
ErrorEvent(e) == [NoEvent EXCEPT !.type = "error", !.error = e]

---------------------------------------------------------------------------
(* Inputs and initial state *)

StartUrls ==
    { MkUrl(FALSE, "", "", "", << >>),
      MkUrl(TRUE, "data", "", "text", << >>),
      MkUrl(TRUE, "https", "example.com", "/stanovi", << >>),
      MkUrl(TRUE, "https", "www.njuskalo.hr", "/prodaja-stanova", << >>),
      MkUrl(TRUE, "https", "njuskalo.hr", "/prodaja-stanova",
            << Pair("q", "x"), Pair("page", "2") >>) }

PageRanges == {None} \cup {Some(n) : n \in 0..MaxCap}

inputs  == << mode, arg, start_url, page_range >>
pagerv  == << base, page, pages, max_pages, prev_page_url, page_url >>
batchv  == << hits, seen_ids, last_next_url, result >>
streamv == << total_hits, page_hits, pending, after >>
chanv   == << chan, rx_open, received, sent >>
fetchv  == << referer, attempts, last_err, profile, html, fetch_error >>
reqv    == << nRobots, nWarmup, warm_req, nFetch, robotsOut, warmFailed >>
histv   == << served, counts >>

\* nothing has run yet
BlankRun ==
    /\ base = NoUrl /\ page = 0 /\ pages = 0 /\ max_pages = 0
    /\ prev_page_url = None /\ page_url = NoUrl /\ referer = NoUrl
    /\ hits = << >> /\ seen_ids = {} /\ last_next_url = None
    /\ total_hits = 0 /\ page_hits = << >>
    /\ attempts = 0 /\ last_err = None /\ profile = "Desktop"
    /\ html = << >> /\ fetch_error = NoErr /\ result = NoResult
    /\ chan = << >> /\ received = << >> /\ pending = NoEvent /\ after = ""
    /\ sent = << >> /\ served = << >> /\ counts = << >>
    /\ nRobots = 0 /\ nWarmup = 0 /\ nFetch = 0 /\ warm_req = NoGet
    /\ robotsOut = "" /\ warmFailed = FALSE /\ calls = << >>

Blank == arg = None /\ runs = << >> /\ BlankRun

\* a request has arrived: scrape_endpoint / scrape_get call scrape_prices,
\* scrape_stream has made its channel and spawned its task
Init ==
    /\ mode \in {"batch", "stream"}
    /\ start_url \in StartUrls
    /\ page_range \in PageRanges
    /\ pc = "start"
    /\ rx_open = (mode = "stream")
    /\ Blank

\* format!("{}://{}", base.scheme(), host)
origin == Origin(base.scheme, start_url.host)

---------------------------------------------------------------------------
(* scrape_prices *)

\* Url::parse .. the allow-list; then the robots.txt request is issued
BatchValidate ==
    /\ mode = "batch" /\ pc = "start"
    /\ LET e == GateError(start_url, "invalid url")
       IN  IF e # NoErr
           THEN /\ pc' = "failed"
                /\ result' = Failure(e)
                /\ UNCHANGED nRobots
           ELSE /\ pc' = "robots"
                /\ nRobots' = nRobots + 1
                /\ UNCHANGED result
    /\ UNCHANGED << inputs, pagerv, hits, seen_ids, last_next_url, streamv,
                    chanv, fetchv, nWarmup, warm_req, nFetch, robotsOut,
                    warmFailed, histv, calls, runs >>

\* the robots.txt answer, the matcher, normalize_pager and the locals
BatchRobots(out) ==
    /\ mode = "batch" /\ pc = "robots"
    /\ robotsOut' = Recorded(out)
    /\ IF ~one_agent_allowed_by_robots(robots_txt(out))
       THEN /\ pc' = "failed"
            /\ result' = Failure(RobotsError)
            /\ UNCHANGED << base, page, max_pages >>
       ELSE /\ pc' = "loop"
            /\ base' = normalize_pager(start_url).base
            /\ page' = normalize_pager(start_url).start_page
            /\ max_pages' = IF page_range = None THEN HARD_PAGE_CAP
                            ELSE page_range[1]
            /\ UNCHANGED result
    /\ UNCHANGED << inputs, pages, prev_page_url, page_url, hits, seen_ids,
                    last_next_url, streamv, chanv, fetchv, nRobots, nWarmup,
                    warm_req, nFetch, warmFailed, histv, calls, runs >>

\* mutant: the result of a run stopped by the cap names no next page
BatchLoop_no_next_url ==
    /\ mode = "batch" /\ pc = "loop"
    /\ IF pages >= max_pages
       THEN /\ pc' = "done"
            /\ result' = Ok(hits, Meta(pages, Len(hits), None))
            /\ UNCHANGED << page_url, pages, nWarmup, warm_req >>
       ELSE /\ pc' = "warmup"
            /\ page_url' = build_page_url(base, page)
            /\ pages' = pages + 1
            /\ nWarmup' = nWarmup + 1
            /\ warm_req' = warmup_hit(origin)
            /\ UNCHANGED result
    /\ UNCHANGED << inputs, base, page, max_pages, prev_page_url, hits,
                    seen_ids, last_next_url, streamv, chanv, fetchv, nRobots,
                    nFetch, robotsOut, warmFailed, histv, calls, runs >>

\* the head of the loop: the cap check, build_page_url, pages += 1, the
\* client; then the warmup request is issued
BatchLoop ==
    /\ mode = "batch" /\ pc = "loop"
    /\ IF pages >= max_pages
       THEN /\ pc' = "done"
            /\ result' = Ok(hits, Meta(pages, Len(hits), last_next_url))
            /\ UNCHANGED << page_url, pages, nWarmup, warm_req >>
       ELSE /\ pc' = "warmup"
            /\ page_url' = build_page_url(base, page)
            /\ pages' = pages + 1
            /\ nWarmup' = nWarmup + 1
            /\ warm_req' = warmup_hit(origin)
            /\ UNCHANGED result
    /\ UNCHANGED << inputs, base, page, max_pages, prev_page_url, hits,
                    seen_ids, last_next_url, streamv, chanv, fetchv, nRobots,
                    nFetch, robotsOut, warmFailed, histv, calls, runs >>

\* retry_fetch_html(..).await? failed: the error is returned
BatchFetchErr ==
    /\ mode = "batch" /\ pc = "fetch_err"
    /\ pc' = "failed"
    /\ result' = Failure(fetch_error)
    /\ UNCHANGED << inputs, pagerv, hits, seen_ids, last_next_url, streamv,
                    chanv, fetchv, reqv, histv, calls, runs >>

\* page_count == 0 ends the loop
BatchStop(page_count) == page_count = 0

\* the document is parsed and registered; stop on page_count == 0, else
\* advance the pager and sleep
BatchFetched ==
    /\ mode = "batch" /\ pc = "fetched"
    /\ LET st == BatchParse(html, hits, seen_ids)
       IN  /\ hits' = st.hits
           /\ seen_ids' = st.seen
           /\ counts' = Append(counts, st.page_count)
           /\ IF BatchStop(st.page_count)
              THEN /\ last_next_url' = None
                   /\ pc' = "done"
                   /\ result' = Ok(st.hits, Meta(pages, Len(st.hits), None))
                   /\ UNCHANGED << prev_page_url, page >>
              ELSE /\ last_next_url' = Some(build_page_url(base, page + 1))
                   /\ prev_page_url' = Some(page_url)
                   /\ page' = page + 1
                   /\ pc' = "loop"
                   /\ UNCHANGED result
    /\ UNCHANGED << inputs, base, pages, max_pages, page_url, streamv, chanv,
                    fetchv, reqv, served, calls, runs >>

---------------------------------------------------------------------------
(* warmup_hit and retry_fetch_html, called by both crawls *)

\* mutant: the referer is the origin on every page
Warmup_origin_referer(failed) ==
    /\ pc = "warmup"
    /\ warmFailed' = failed
    /\ referer' = origin
    /\ attempts' = 1
    /\ last_err' = None
    /\ profile' = "Desktop"
    /\ nFetch' = nFetch + 1
    /\ pc' = "fetch"
    /\ UNCHANGED << inputs, pagerv, batchv, streamv, chanv, html, fetch_error,
                    nRobots, nWarmup, warm_req, robotsOut, histv, calls, runs >>

\* the warmup answer is dropped; the referer is chosen; retry_fetch_html
\* starts with the Desktop profile and issues its first request
Warmup(failed) ==
    /\ pc = "warmup"
    /\ warmFailed' = failed
    /\ referer' = IF prev_page_url = None THEN origin ELSE prev_page_url[1]
    /\ attempts' = 1
    /\ last_err' = None
    /\ profile' = "Desktop"
    /\ nFetch' = nFetch + 1
    /\ pc' = "fetch"
    /\ UNCHANGED << inputs, pagerv, batchv, streamv, chanv, html, fetch_error,
                    nRobots, nWarmup, warm_req, robotsOut, histv, calls, runs >>

\* the answer to the attempt in flight: return the body, or back off and
\* issue the next attempt, or return the error after the fifth; the locals
\* of retry_fetch_html end with the call
FetchAttempt(resp) ==
    /\ pc = "fetch"
    /\ LET r == retry_fetch_html(attempts, profile, last_err, resp)
       IN  /\ attempts' = IF r.status = "retry" THEN r.attempts ELSE 0
           /\ profile' = IF r.status = "retry" THEN r.profile ELSE "Desktop"
           /\ last_err' = IF r.status = "retry" THEN r.last_err ELSE None
           /\ fetch_error' = r.error
           /\ pc' = CASE r.status = "ok"    -> "fetched"
                      [] r.status = "retry" -> "fetch"
                      [] OTHER              -> "fetch_err"
           /\ html' = IF r.status = "ok" THEN resp.body.doc ELSE html
           /\ served' = IF r.status = "ok" THEN Append(served, resp.body.doc)
                        ELSE served
           /\ warmFailed' = FALSE
    /\ UNCHANGED << inputs, pagerv, batchv, streamv, chanv, referer, nRobots,
                    nWarmup, warm_req, nFetch, robotsOut, counts, calls, runs >>

---------------------------------------------------------------------------
(* scrape_stream: the spawned producer task *)

\* the producer reaches tx.send(ev).await and will go on at `next`
SendThen(ev, next) ==
    /\ pending' = ev
    /\ after' = next
    /\ pc' = "send"

\* Url::parse .. the allow-list; then the robots.txt request is issued
StreamValidate ==
    /\ mode = "stream" /\ pc = "start"
    /\ LET e == GateError(start_url, "url parse error")
       IN  IF e # NoErr
           THEN /\ SendThen(ErrorEvent(e), "end")
                /\ UNCHANGED nRobots
           ELSE /\ pc' = "robots"
                /\ nRobots' = nRobots + 1
                /\ UNCHANGED << pending, after >>
    /\ UNCHANGED << inputs, pagerv, batchv, total_hits, page_hits, chanv,
                    fetchv, nWarmup, warm_req, nFetch, robotsOut, warmFailed,
                    histv, calls, runs >>

\* the robots.txt answer, the matcher, normalize_pager, the start event
StreamRobots(out) ==
    /\ mode = "stream" /\ pc = "robots"
    /\ robotsOut' = Recorded(out)
    /\ IF ~one_agent_allowed_by_robots(robots_txt(out))
       THEN /\ SendThen(ErrorEvent(RobotsError), "end")
            /\ UNCHANGED << base, page, max_pages >>
       ELSE LET np  == normalize_pager(start_url)
                cap == IF page_range = None THEN HARD_PAGE_CAP
                       ELSE page_range[1]
            IN  /\ base' = np.base
                /\ page' = np.start_page
                /\ max_pages' = cap
                /\ SendThen(StartEvent(Origin(np.base.scheme, start_url.host),
                                       cap), "loop")
    /\ UNCHANGED << inputs, pages, prev_page_url, page_url, batchv,
                    total_hits, page_hits, chanv, fetchv, nRobots, nWarmup,
                    warm_req, nFetch, warmFailed, histv, calls, runs >>

\* mutant: the break after the done event of the cap check is missing
StreamLoop_no_break ==
    /\ mode = "stream" /\ pc = "loop"
    /\ IF pages >= max_pages
       THEN /\ SendThen(DoneEvent(pages, total_hits), "after_page")
            /\ UNCHANGED << page_url, pages, nWarmup, warm_req >>
       ELSE /\ pc' = "warmup"
            /\ page_url' = build_page_url(base, page)
            /\ pages' = pages + 1
            /\ nWarmup' = nWarmup + 1
            /\ warm_req' = warmup_hit(origin)
            /\ UNCHANGED << pending, after >>
    /\ UNCHANGED << inputs, base, page, max_pages, prev_page_url, batchv,
                    total_hits, page_hits, chanv, fetchv, nRobots, nFetch,
                    robotsOut, warmFailed, histv, calls, runs >>

\* the head of the loop: the cap check sends done; else build_page_url,
\* pages += 1, the client, and the warmup request is issued
StreamLoop ==
    /\ mode = "stream" /\ pc = "loop"
    /\ IF pages >= max_pages
       THEN /\ SendThen(DoneEvent(pages, total_hits), "end")
            /\ UNCHANGED << page_url, pages, nWarmup, warm_req >>
       ELSE /\ pc' = "warmup"
            /\ page_url' = build_page_url(base, page)
            /\ pages' = pages + 1
            /\ nWarmup' = nWarmup + 1
            /\ warm_req' = warmup_hit(origin)
            /\ UNCHANGED << pending, after >>
    /\ UNCHANGED << inputs, base, page, max_pages, prev_page_url, batchv,
                    total_hits, page_hits, chanv, fetchv, nRobots, nFetch,
                    robotsOut, warmFailed, histv, calls, runs >>

\* mutant: the break after the error event of a failed fetch is missing
StreamFetchErr_no_break ==
    /\ mode = "stream" /\ pc = "fetch_err"
    /\ SendThen(ErrorEvent(fetch_error), "loop")
    /\ UNCHANGED << inputs, pagerv, batchv, total_hits, page_hits, chanv,
                    fetchv, reqv, histv, calls, runs >>

\* retry_fetch_html failed: the error event, then break
StreamFetchErr ==
    /\ mode = "stream" /\ pc = "fetch_err"
    /\ SendThen(ErrorEvent(fetch_error), "end")
    /\ UNCHANGED << inputs, pagerv, batchv, total_hits, page_hits, chanv,
                    fetchv, reqv, histv, calls, runs >>

\* mutant: the page event is not sent before the next page is begun
StreamFetched_no_emit ==
    /\ mode = "stream" /\ pc = "fetched"
    /\ LET hs == StreamParse(html)
       IN  /\ page_hits' = hs
           /\ total_hits' = total_hits + Len(hs)
           /\ counts' = Append(counts, Len(hs))
           /\ pending' = PageEvent(page, page_url, Len(hs), hs,
                                   total_hits + Len(hs))
           /\ after' = "after_page"
           /\ pc' = "after_page"
    /\ UNCHANGED << inputs, pagerv, batchv, chanv, fetchv, reqv, served,
                    calls, runs >>

\* mutant: the page event carries the total of before the page
StreamFetched_old_total ==
    /\ mode = "stream" /\ pc = "fetched"
    /\ LET hs == StreamParse(html)
       IN  /\ page_hits' = hs
           /\ total_hits' = total_hits + Len(hs)
           /\ counts' = Append(counts, Len(hs))
           /\ SendThen(PageEvent(page, page_url, Len(hs), hs, total_hits),
                       "after_page")
    /\ UNCHANGED << inputs, pagerv, batchv, chanv, fetchv, reqv, served,
                    calls, runs >>

\* the document is parsed, the total grows, the page event is sent
StreamFetched ==
    /\ mode = "stream" /\ pc = "fetched"
    /\ LET hs == StreamParse(html)
       IN  /\ page_hits' = hs
           /\ total_hits' = total_hits + Len(hs)
           /\ counts' = Append(counts, Len(hs))
           /\ SendThen(PageEvent(page, page_url, Len(hs), hs,
                                 total_hits + Len(hs)), "after_page")
    /\ UNCHANGED << inputs, pagerv, batchv, chanv, fetchv, reqv, served,
                    calls, runs >>

\* page_hits.is_empty() ends the loop
StreamStop(hs) == hs = << >>

\* mutant: the break after the done event of an empty page is missing
StreamAfterPage_no_break ==
    /\ mode = "stream" /\ pc = "after_page"
    /\ IF StreamStop(page_hits)
       THEN /\ SendThen(DoneEvent(pages, total_hits), "loop")
            /\ UNCHANGED << prev_page_url, page >>
       ELSE /\ prev_page_url' = Some(page_url)
            /\ page' = page + 1
            /\ pc' = "loop"
            /\ UNCHANGED << pending, after >>
    /\ UNCHANGED << inputs, base, pages, max_pages, page_url, batchv,
                    total_hits, page_hits, chanv, fetchv, reqv, histv, calls,
                    runs >>

\* mutant: the pager is not advanced after a page with records
StreamAfterPage_same_page ==
    /\ mode = "stream" /\ pc = "after_page"
    /\ IF StreamStop(page_hits)
       THEN /\ SendThen(DoneEvent(pages, total_hits), "end")
            /\ UNCHANGED << prev_page_url, page >>
       ELSE /\ prev_page_url' = Some(page_url)
            /\ page' = page
            /\ pc' = "loop"
            /\ UNCHANGED << pending, after >>
    /\ UNCHANGED << inputs, base, pages, max_pages, page_url, batchv,
                    total_hits, page_hits, chanv, fetchv, reqv, histv, calls,
                    runs >>

\* after the page event: done on an empty page, else advance and sleep
StreamAfterPage ==
    /\ mode = "stream" /\ pc = "after_page"
    /\ IF StreamStop(page_hits)
       THEN /\ SendThen(DoneEvent(pages, total_hits), "end")
            /\ UNCHANGED << prev_page_url, page >>
       ELSE /\ prev_page_url' = Some(page_url)
            /\ page' = page + 1
            /\ pc' = "loop"
            /\ UNCHANGED << pending, after >>
    /\ UNCHANGED << inputs, base, pages, max_pages, page_url, batchv,
                    total_hits, page_hits, chanv, fetchv, reqv, histv, calls,
                    runs >>

\* mutant: the send does not wait for room in the channel
Send_no_wait ==
    /\ mode = "stream" /\ pc = "send"
    /\ IF rx_open
       THEN /\ chan' = Append(chan, pending)
            /\ sent' = Append(sent, pending)
       ELSE UNCHANGED << chan, sent >>
    /\ pc' = after
    /\ UNCHANGED << inputs, pagerv, batchv, streamv, rx_open, received,
                    fetchv, reqv, histv, calls, runs >>

\* let _ = tx.send(ev).await: waits while the channel is full; the event is
\* lost, and the Err ignored, when the receiver is gone
Send ==
    /\ mode = "stream" /\ pc = "send"
    /\ ~rx_open \/ Len(chan) < CHANNEL_CAPACITY
    /\ IF rx_open
       THEN /\ chan' = Append(chan, pending)
            /\ sent' = Append(sent, pending)
       ELSE UNCHANGED << chan, sent >>
    /\ pc' = after
    /\ UNCHANGED << inputs, pagerv, batchv, streamv, rx_open, received,
                    fetchv, reqv, histv, calls, runs >>

---------------------------------------------------------------------------
(* scrape_stream: the consumer *)

\* while let Some(chunk) = rx.recv().await { yield chunk }
Recv ==
    /\ mode = "stream" /\ rx_open /\ chan # << >>
    /\ received' = Append(received, Head(chan))
    /\ chan' = Tail(chan)
    /\ UNCHANGED << inputs, pc, pagerv, batchv, streamv, rx_open, sent,
                    fetchv, reqv, histv, calls, runs >>

\* the client goes away: the response stream is dropped, and with it rx,
\* the events still buffered and what the consumer held
Disconnect ==
    /\ mode = "stream" /\ rx_open
    /\ ~(pc = "end" /\ chan = << >>)
    /\ rx_open' = FALSE
    /\ chan' = << >>
    /\ received' = << >>
    /\ UNCHANGED << inputs, pc, pagerv, batchv, streamv, sent, fetchv, reqv,
                    histv, calls, runs >>

---------------------------------------------------------------------------
(* A crawl run *)

Next ==
    \/ BatchValidate
    \/ \E out \in RobotsOutcomes : BatchRobots(out)
    \/ BatchLoop
    \/ BatchFetched
    \/ BatchFetchErr
    \/ \E failed \in BOOLEAN : Warmup(failed)
    \/ \E resp \in Responses : FetchAttempt(resp)
    \/ StreamValidate
    \/ \E out \in RobotsOutcomes : StreamRobots(out)
    \/ StreamLoop
    \/ StreamFetched
    \/ StreamFetchErr
    \/ StreamAfterPage
    \/ Send
    \/ Recv
    \/ Disconnect

Spec == Init /\ [][Next]_vars

---------------------------------------------------------------------------
(* The dedup register on its own: any sequence of register_hit calls on one
   run's hits and seen set *)

InitRegister ==
    /\ mode = "register"
    /\ start_url = NoUrl
    /\ page_range = None
    /\ pc = "register"
    /\ rx_open = FALSE
    /\ Blank

RegisterCall(h) ==
    /\ mode = "register" /\ pc = "register"
    /\ Len(calls) < MaxCalls
    /\ LET r == register_hit(h, hits, seen_ids)
       IN  /\ hits' = r.hits
           /\ seen_ids' = r.seen
           /\ calls' = Append(calls, [hit |-> h, ok |-> r.ok])
    /\ UNCHANGED << inputs, pc, pagerv, last_next_url, result, streamv, chanv,
                    fetchv, reqv, histv, runs >>

NextRegister == \E h \in Hits : RegisterCall(h)

SpecRegister == InitRegister /\ [][NextRegister]_vars

---------------------------------------------------------------------------
(* A long stream: the site allows the crawl and answers every page request
   at once with a document of one card, so that the producer can run ahead
   of the consumer by more than the capacity of the channel *)

OneCardBody ==
    Body(MIN_BODY_LEN + 1, TRUE, << [hit |-> Hit(0, 1), nested |-> TRUE] >>)

InitChannel ==
    /\ mode = "stream"
    /\ start_url = MkUrl(TRUE, "https", "www.njuskalo.hr", "/prodaja-stanova",
                         << >>)
    /\ page_range = Some(MaxStreamPages)
    /\ pc = "start"
    /\ rx_open = TRUE
    /\ Blank

NextChannel ==
    \/ StreamValidate
    \/ StreamRobots("allow")
    \/ StreamLoop
    \/ Warmup(FALSE)
    \/ FetchAttempt(Response(200, OneCardBody))
    \/ StreamFetched
    \/ StreamAfterPage
    \/ Send
    \/ Recv
    \/ Disconnect

SpecChannel == InitChannel /\ [][NextChannel]_vars

---------------------------------------------------------------------------
(* The pager helpers on their own: normalize_pager on any URL, then
   build_page_url on the URL or on its base with any page number *)

RawKeys == {"page", "p%61ge", "q"}
RawValues == {"0", "2", "3", "x", "%32", "+2"}
RawPairs == {Pair(k, v) : k \in RawKeys, v \in RawValues}

PagerUrls ==
    {MkUrl(TRUE, "https", "www.njuskalo.hr", "/prodaja-stanova", q) :
        q \in UNION {[1..n -> RawPairs] : n \in 0..MaxQuery}}

InitPager ==
    /\ mode = "pager"
    /\ start_url \in PagerUrls
    /\ page_range = None
    /\ pc = "normalize"
    /\ rx_open = FALSE
    /\ Blank

\* let (base0, start_page) = normalize_pager(&start_url)
PagerNormalize ==
    /\ mode = "pager" /\ pc = "normalize"
    /\ LET np == normalize_pager(start_url)
       IN  /\ base' = np.base
           /\ page' = np.start_page
    /\ pc' = "build"
    /\ UNCHANGED << inputs, pages, max_pages, prev_page_url, page_url, batchv,
                    streamv, chanv, fetchv, reqv, histv, calls, runs >>

\* build_page_url(&b, p)?; the call is recorded with its arguments
PagerBuild(b, p) ==
    /\ mode = "pager" /\ pc = "build"
    /\ page_url' = build_page_url(b, p)
    /\ calls' = << [base |-> b, p |-> p] >>
    /\ pc' = "built"
    /\ UNCHANGED << inputs, base, page, pages, max_pages, prev_page_url,
                    batchv, streamv, chanv, fetchv, reqv, histv, runs >>

NextPager ==
    \/ PagerNormalize
    \/ \E b \in {base, start_url}, p \in 1..MaxPage : PagerBuild(b, p)

SpecPager == InitPager /\ [][NextPager]_vars

---------------------------------------------------------------------------
(* normalize_price on its own: a raw price text is normalized, and the
   number it gave is written out and normalized again *)

Texts(chars, n) == UNION {[1..k -> chars] : k \in 0..n}

PriceChars == {"0", "1", "5", ".", ",", " ", "€"}

RECURSIVE DigitsOf(_)
DigitsOf(n) ==
    LET d == CHOOSE c \in DigitChars : DigitVal(c) = n % 10
    IN  IF n < 10 THEN << d >> ELSE Append(DigitsOf(n \div 10), d)

RECURSIVE Pow10(_)
Pow10(e) == IF e = 0 THEN 1 ELSE 10 * Pow10(e - 1)

RECURSIVE ZeroPad(_, _)
ZeroPad(ds, n) == IF Len(ds) >= n THEN ds ELSE ZeroPad(<< "0" >> \o ds, n)

\* the shortest decimal text of a number that is not negative: its integer
\* digits, and a period and its decimals when it has any
Render(v) ==
    DigitsOf(v.m \div Pow10(v.e))
        \o (IF v.e = 0 THEN << >>
            ELSE << "." >> \o ZeroPad(DigitsOf(v.m % Pow10(v.e)), v.e))

InitPrice ==
    /\ mode = "price"
    /\ arg \in Texts(PriceChars, MaxPriceLen)
    /\ start_url = NoUrl
    /\ page_range = None
    /\ pc = "text"
    /\ rx_open = FALSE
    /\ runs = << >>
    /\ BlankRun

\* normalize_price(&raw_price)
PriceNormalize ==
    /\ mode = "price" /\ pc = "text"
    /\ calls' = << [arg |-> arg, ret |-> normalize_price(arg)] >>
    /\ pc' = "normalized"
    /\ UNCHANGED << inputs, pagerv, batchv, streamv, chanv, fetchv, reqv,
                    histv, runs >>

\* normalize_price of the text of the number the first call gave
PriceAgain ==
    /\ mode = "price" /\ pc = "normalized"
    /\ calls[1].ret.n # None
    /\ LET txt == Render(calls[1].ret.n[1])
       IN  calls' = Append(calls, [arg |-> txt, ret |-> normalize_price(txt)])
    /\ pc' = "again"
    /\ UNCHANGED << inputs, pagerv, batchv, streamv, chanv, fetchv, reqv,
                    histv, runs >>

NextPrice == PriceNormalize \/ PriceAgain

SpecPrice == InitPrice /\ [][NextPrice]_vars

---------------------------------------------------------------------------
(* parse_card on its own: one card of any short texts *)

CardPriceChars == {"5", "€"}
CardDescChars == {"2", "0", "-", "x"}
Cards1 ==
    {Card(u, rp, dl, ds) :
        u \in {"", "https://www.njuskalo.hr/nekretnine/stan-oglas-1"},
        rp \in Texts(CardPriceChars, MaxCardText),
        dl \in {None} \cup {Some(t) : t \in Texts(CardDescChars, MaxCardText)},
        ds \in {None, Some(<< "4" >>)}}

InitCard ==
    /\ mode = "card"
    /\ arg \in Cards1
    /\ start_url = NoUrl
    /\ page_range = None
    /\ pc = "card"
    /\ rx_open = FALSE
    /\ runs = << >>
    /\ BlankRun

\* parse_card(&li, &page_url, ..)
CardParse ==
    /\ mode = "card" /\ pc = "card"
    /\ calls' = << [arg |-> arg, ret |-> parse_card(arg)] >>
    /\ pc' = "parsed"
    /\ UNCHANGED << inputs, pagerv, batchv, streamv, chanv, fetchv, reqv,
                    histv, runs >>

NextCard == CardParse

SpecCard == InitCard /\ [][NextCard]_vars

---------------------------------------------------------------------------
(* retry_fetch_html on its own: one call, any answers of the network *)

HttpStatuses == {200, 403}
TransportErrors == {"connection reset", "operation timed out"}

\* the answers to one request: transport errors, and with each status the
\* rejected bodies, a short body with the marker, and an accepted body
FetchResponses ==
    {Failed(e) : e \in TransportErrors}
        \cup {Response(st, b) :
                 st \in HttpStatuses,
                 b \in InvalidBodies
                          \cup {Body(1, TRUE, << >>),
                                Body(MIN_BODY_LEN + 1, TRUE, << >>)}}

InitFetch ==
    /\ mode = "fetch"
    /\ start_url = NoUrl
    /\ page_range = None
    /\ pc = "call"
    /\ rx_open = FALSE
    /\ Blank

\* the locals are initialised, the loop is entered, the first request is sent
FetchEnter ==
    /\ mode = "fetch" /\ pc = "call"
    /\ attempts' = 1
    /\ last_err' = None
    /\ profile' = "Desktop"
    /\ pc' = "fetch"
    /\ UNCHANGED << inputs, pagerv, batchv, streamv, chanv, referer, html,
                    fetch_error, reqv, histv, calls, runs >>

\* the answer to the attempt in flight; the attempt is recorded with the
\* profile it was sent with
FetchTurn(resp) ==
    /\ mode = "fetch" /\ pc = "fetch"
    /\ LET r == retry_fetch_html(attempts, profile, last_err, resp)
       IN  /\ attempts' = r.attempts
           /\ profile' = r.profile
           /\ last_err' = r.last_err
           /\ fetch_error' = r.error
           /\ pc' = CASE r.status = "ok"    -> "fetched"
                      [] r.status = "retry" -> "fetch"
                      [] OTHER              -> "fetch_err"
           /\ html' = IF r.status = "ok" THEN resp.body.doc ELSE html
           /\ calls' = Append(calls, [n |-> attempts, profile |-> profile,
                                      resp |-> resp, backoff |-> r.backoff])
    /\ UNCHANGED << inputs, pagerv, batchv, streamv, chanv, referer, reqv,
                    histv, runs >>

NextFetch == FetchEnter \/ \E resp \in FetchResponses : FetchTurn(resp)

SpecFetch == InitFetch /\ [][NextFetch]_vars

---------------------------------------------------------------------------
(* Concurrent crawl runs.  Every call of scrape_prices and every task that
   scrape_stream spawns has its own locals and its own channel; the program
   has no static or shared mutable state.  The runs studied have passed the
   gate and their fetches succeed; their steps interleave at the awaits. *)

RunIds == {"a", "b"}
RunUrl == MkUrl(TRUE, "https", "www.njuskalo.hr", "/prodaja-stanova", << >>)
\* a page served to one of the runs: no card, or one card
RunDocs == {<< >>} \cup {<< [hit |-> Hit(i, 1), nested |-> TRUE] >> : i \in Ids}

\* the locals of a run that enters its loop; a stream has sent its start
\* event on its channel
NewRun(m, cap) ==
    LET np == normalize_pager(RunUrl)
    IN  [mode |-> m, pc |-> "loop", base |-> np.base, page |-> np.start_page,
         pages |-> 0, max_pages |-> cap, page_url |-> NoUrl,
         hits |-> << >>, seen_ids |-> {}, last_next_url |-> None,
         total_hits |-> 0, result |-> NoResult, served |-> << >>,
         sent |-> IF m = "stream"
                  THEN << StartEvent(Origin(np.base.scheme, RunUrl.host), cap) >>
                  ELSE << >>]

\* mutant: one seen set for all the runs
SeenBy_shared(rs, r) == UNION {rs[q].seen_ids : q \in DOMAIN rs}

\* the seen set register_hit is given in run r: the run's own seen_ids
SeenBy(rs, r) == rs[r].seen_ids

\* the head of the loop of a run: the cap check, or build_page_url and
\* pages += 1, up to the page request
RunHead(run) ==
    IF run.pages >= run.max_pages
    THEN IF run.mode = "batch"
         THEN [run EXCEPT !.pc = "done",
                          !.result = Ok(run.hits,
                                        Meta(run.pages, Len(run.hits),
                                             run.last_next_url))]
         ELSE [run EXCEPT !.pc = "done",
                          !.sent = Append(@, DoneEvent(run.pages,
                                                       run.total_hits))]
    ELSE [run EXCEPT !.pc = "fetch",
                     !.page_url = build_page_url(run.base, run.page),
                     !.pages = @ + 1]

\* the rest of the loop of a batch run, from the document to the next head
RunPageBatch(run, doc, seen) ==
    LET st == BatchParse(doc, run.hits, seen)
        r1 == [run EXCEPT !.served = Append(@, doc), !.hits = st.hits,
                          !.seen_ids = st.seen]
    IN  IF BatchStop(st.page_count)
        THEN [r1 EXCEPT !.pc = "done", !.last_next_url = None,
                        !.result = Ok(st.hits,
                                      Meta(run.pages, Len(st.hits), None))]
        ELSE [r1 EXCEPT !.pc = "loop", !.page = @ + 1,
                        !.last_next_url =
                            Some(build_page_url(run.base, run.page + 1))]

\* the rest of the loop of a streaming run
RunPageStream(run, doc) ==
    LET hs == StreamParse(doc)
        total == run.total_hits + Len(hs)
        ev == PageEvent(run.page, run.page_url, Len(hs), hs, total)
        r1 == [run EXCEPT !.served = Append(@, doc), !.total_hits = total]
    IN  IF StreamStop(hs)
        THEN [r1 EXCEPT !.pc = "done",
                        !.sent = @ \o << ev, DoneEvent(run.pages, total) >>]
        ELSE [r1 EXCEPT !.pc = "loop", !.page = @ + 1,
                        !.sent = Append(@, ev)]

RunPage(run, doc, seen) ==
    IF run.mode = "batch" THEN RunPageBatch(run, doc, seen)
    ELSE RunPageStream(run, doc)

InitRuns ==
    /\ mode = "runs"
    /\ arg = None
    /\ start_url = RunUrl
    /\ page_range = None
    /\ pc = "runs"
    /\ rx_open = FALSE
    /\ runs \in [RunIds -> {NewRun(m, cap) : m \in {"batch", "stream"},
                                             cap \in 0..MaxCap}]
    /\ BlankRun

\* run r passes the head of its loop
RunsLoop(r) ==
    /\ mode \in {"runs", "modes"} /\ runs[r].pc = "loop"
    /\ runs' = [runs EXCEPT ![r] = RunHead(runs[r])]
    /\ UNCHANGED << inputs, pc, pagerv, batchv, streamv, chanv, fetchv, reqv,
                    histv, calls >>

\* the page request of run r is answered with doc and the page is processed
RunsFetched(r, doc) ==
    /\ mode = "runs" /\ runs[r].pc = "fetch"
    /\ runs' = [runs EXCEPT ![r] = RunPage(runs[r], doc, SeenBy(runs, r))]
    /\ UNCHANGED << inputs, pc, pagerv, batchv, streamv, chanv, fetchv, reqv,
                    histv, calls >>

NextRuns ==
    \E r \in RunIds : RunsLoop(r) \/ \E doc \in RunDocs : RunsFetched(r, doc)

SpecRuns == InitRuns /\ [][NextRuns]_vars

---------------------------------------------------------------------------
(* The two crawls on one feed: a batch run and a streaming run with the same
   start URL and page cap, whose k-th page fetch is answered alike *)

\* retry_fetch_html returned the document doc, or failed
Fetched(doc) == [ok |-> TRUE, doc |-> doc]
FetchFails == [ok |-> FALSE, doc |-> << >>]

\* a feed: the answer to the fetch of each page a run can reach
Feeds == [1..MaxCap -> {Fetched(d) : d \in RunDocs} \cup {FetchFails}]

\* retry_fetch_html failed with e: scrape_prices returns the error,
\* scrape_stream sends the error event and ends
RunFail(run, e) ==
    IF run.mode = "batch"
    THEN [run EXCEPT !.pc = "done", !.result = Failure(e)]
    ELSE [run EXCEPT !.pc = "done", !.sent = Append(@, ErrorEvent(e))]

InitModes ==
    /\ mode = "modes"
    /\ arg \in Feeds
    /\ start_url = RunUrl
    /\ page_range \in {Some(cap) : cap \in 0..MaxCap}
    /\ pc = "runs"
    /\ rx_open = FALSE
    /\ runs = [r \in RunIds |-> NewRun(IF r = "a" THEN "batch" ELSE "stream",
                                       page_range[1])]
    /\ BlankRun

\* the page fetch of run r is answered as the feed says
ModesFetched(r) ==
    /\ mode = "modes" /\ runs[r].pc = "fetch"
    /\ LET ans == arg[runs[r].pages]
       IN  runs' = [runs EXCEPT ![r] =
                       IF ans.ok
                       THEN RunPage(runs[r], ans.doc, SeenBy(runs, r))
                       ELSE RunFail(runs[r],
                                    "failed to fetch page after retries")]
    /\ UNCHANGED << inputs, pc, pagerv, batchv, streamv, chanv, fetchv, reqv,
                    histv, calls >>

NextModes == \E r \in RunIds : RunsLoop(r) \/ ModesFetched(r)

SpecModes == InitModes /\ [][NextModes]_vars

---------------------------------------------------------------------------
(* A crawl run under fairness, on a feed whose pages have at most one card:
   every request returns and every sleep ends, so the crawl takes its next
   step, and the consumer of a stream, while connected, keeps reading *)

\* the answers of the site: a transport error, the rejected bodies, and the
\* valid ones, with a card only while the feed has cards left
FairResponses ==
    {Failed("connection reset")}
        \cup {Response(200, b) : b \in InvalidBodies}
        \cup {Response(200, Body(MIN_BODY_LEN + 1, TRUE, d)) :
                 d \in IF CardsIn(served) < MaxHits THEN RunDocs ELSE {<< >>}}

\* the steps of the crawl itself: the call of scrape_prices, or the task
\* scrape_stream spawned
Task ==
    \/ BatchValidate
    \/ \E out \in RobotsOutcomes : BatchRobots(out)
    \/ BatchLoop
    \/ BatchFetched
    \/ BatchFetchErr
    \/ \E failed \in BOOLEAN : Warmup(failed)
    \/ \E resp \in FairResponses : FetchAttempt(resp)
    \/ StreamValidate
    \/ \E out \in RobotsOutcomes : StreamRobots(out)
    \/ StreamLoop
    \/ StreamFetched
    \/ StreamFetchErr
    \/ StreamAfterPage
    \/ Send

NextFair == Task \/ Recv \/ Disconnect

FairSpec == Init /\ [][NextFair]_vars /\ WF_vars(Task) /\ WF_vars(Recv)

---------------------------------------------------------------------------
(* Vocabulary of the claims *)

GateErrors == {"invalid url", "url parse error", "url has no host",
               "domain not in whitelist", RobotsError}
FetchErrors == {"connection reset", "failed to fetch page after retries"}

Terminal(ev) == ev.type \in {"done", "error"}

\* the run has ended, and how
BatchEnded == mode = "batch" /\ pc \in {"done", "failed"}
StreamEnded == mode = "stream" /\ pc = "end"
RunEnded == BatchEnded \/ StreamEnded
\* the error the run ended with, NoErr when it ended well or has not ended
RunError ==
    IF mode = "batch" THEN (IF pc = "failed" THEN result.error ELSE NoErr)
    ELSE IF pc \in {"send", "end"} /\ pending.type = "error" THEN pending.error
    ELSE NoErr
EndedOk ==
    \/ mode = "batch" /\ pc = "done"
    \/ mode = "stream" /\ pc = "end" /\ pending.type = "done"
\* pages_visited and total_hits as the run reports them at its end
ReportedPages == IF mode = "batch" THEN result.meta.page_count ELSE pending.pages
ReportedTotal == IF mode = "batch" THEN result.meta.total_hits ELSE pending.total

NoRequest == nRobots = 0 /\ nWarmup = 0 /\ nFetch = 0
GateFailed == RunError \in GateErrors
FetchFailed == RunError \in FetchErrors

Last(seq) == seq[Len(seq)]
IsPage(ev) == ev.type = "page"
NPages(evs) == Len(SelectSeq(evs, IsPage))

\* the hits of the page events of a stream, in order
RECURSIVE EventHits(_)
EventHits(evs) ==
    IF evs = << >> THEN << >> ELSE Head(evs).hits \o EventHits(Tail(evs))

\* no non-empty identifier twice
NoDuplicateId(hs) ==
    \A i, j \in 1..Len(hs) : (i < j /\ hs[i].id # 0) => hs[i].id # hs[j].id

\* the number of leading documents with at least one card
RECURSIVE LeadingNonEmpty(_)
LeadingNonEmpty(docs) ==
    IF docs = << >> \/ Head(docs) = << >> THEN 0
    ELSE 1 + LeadingNonEmpty(Tail(docs))

RECURSIVE SumTo(_, _)
SumTo(ns, k) == IF k = 0 THEN 0 ELSE ns[k] + SumTo(ns, k - 1)

---------------------------------------------------------------------------
(* C1 *)

\* after the first event: page events, and a terminal event only as the last
PagesThenTerminal ==
    \A i \in 2..Len(sent) :
        IsPage(sent[i]) \/ (i = Len(sent) /\ Terminal(sent[i]))
IncreasingPages ==
    \A i, j \in 1..Len(sent) :
        (i < j /\ IsPage(sent[i]) /\ IsPage(sent[j])) => sent[i].page < sent[j].page
\* with the consumer connected: a page event for every fetched page, and at
\* the end of the task one terminal event, the last
OnePagePerFetchedPage ==
    /\ NPages(sent) <= Len(served)
    /\ (StreamEnded /\ rx_open) =>
          /\ sent # << >> /\ Terminal(Last(sent))
          /\ NPages(sent) = Len(served)
OrderedEvents == PagesThenTerminal /\ IncreasingPages /\ OnePagePerFetchedPage

\* C1 as claimed: in every streaming run the events sent are one start event
\* first, then the page events in increasing page order, then one terminal
\* event, also when the run fails in the compliance gate.
C1_StartAlwaysFirst ==
    mode = "stream" =>
        /\ sent # << >> => sent[1].type = "start"
        /\ OrderedEvents

\* C1 as amended: a run that passes the gate sends start first; a run that
\* fails in the gate sends its error event alone, without a start event; in
\* both the rest is page events in increasing page order, one per fetched
\* page, then one terminal event, while the consumer stays connected.
C1_EventOrder ==
    mode = "stream" =>
        /\ sent # << >> =>
              \/ sent[1].type = "start" /\ ~GateFailed
              \/ /\ GateFailed
                 /\ sent = << ErrorEvent(RunError) >>
        /\ OrderedEvents

\* a stream of start, two page events and a terminal event has ended
C1_Witness ==
    /\ StreamEnded /\ rx_open
    /\ Len(sent) >= 4 /\ sent[1].type = "start" /\ NPages(sent) >= 2
    /\ Terminal(Last(sent))

---------------------------------------------------------------------------
(* C2 *)

\* C2: in a streaming run a terminal event (done or error) is the last event
\* sent and the producer task ends with it: every send of done or error goes
\* on to the end of the task, nothing is sent after it, and with the consumer
\* connected the ended task has sent exactly one terminal event.
C2_OneTerminal ==
    mode = "stream" =>
        /\ \A i \in 1..Len(sent) : Terminal(sent[i]) => i = Len(sent)
        /\ (\E i \in 1..Len(sent) : Terminal(sent[i])) => pc = "end"
        /\ (pc = "send" /\ Terminal(pending)) => after = "end"
        /\ pc = "end" =>
              /\ Terminal(pending)
              /\ rx_open => (sent # << >> /\ Last(sent) = pending)

\* a run whose page fetch failed has sent start, a page, then error, and ended
C2_Witness ==
    /\ StreamEnded /\ rx_open
    /\ Len(sent) >= 3 /\ Last(sent).type = "error"
    /\ Last(sent).error \in FetchErrors

---------------------------------------------------------------------------
(* C3 *)

\* C3: a run, batch or streaming, that passed the gate, whose fetches all
\* succeeded and whose page cap exceeds the number k of leading pages with
\* records, ends only after fetching page k+1 with no record: it ends without
\* error with pages_visited = k+1 and total_hits the sum of the hit counts of
\* pages 1..k.
C3_TerminationByEmptiness ==
    LET k == LeadingNonEmpty(served)
    IN  (RunEnded /\ ~GateFailed /\ ~FetchFailed /\ max_pages > k) =>
            /\ EndedOk
            /\ Len(served) = k + 1 /\ served[k + 1] = << >>
            /\ ReportedPages = k + 1
            /\ ReportedTotal = SumTo(counts, k)

---------------------------------------------------------------------------
(* C4 *)

AllNonEmpty(docs) == \A i \in 1..Len(docs) : docs[i] # << >>

\* C4: pages_visited never exceeds the page cap, no warmup or page fetch is
\* issued beyond it, and a run with cap c >= 1 whose fetches all succeed on
\* pages that all have records ends without error with pages_visited = c.
C4_PageCap ==
    (mode \in {"batch", "stream"} /\ pc \notin {"start", "robots"} /\ ~GateFailed) =>
        /\ pages <= max_pages /\ nWarmup <= max_pages /\ nFetch <= max_pages
        /\ (RunEnded /\ ~FetchFailed /\ max_pages >= 1 /\ AllNonEmpty(served)) =>
              (EndedOk /\ ReportedPages = max_pages)

---------------------------------------------------------------------------
(* C5 *)

\* the ListingHits the card parser produces for a document, before dedup
ParsedHits(doc) ==
    IF PrimaryCards(doc) # << >> THEN HitsOf(PrimaryCards(doc))
    ELSE HitsOf(AllCards(doc))

\* C5: a run, batch or streaming, stops paging without error only when the
\* page cap is reached or when the page fetched last yielded no parsed
\* record, counted before deduplication.
C5_StopRule ==
    (EndedOk /\ ~GateFailed) =>
        \/ ReportedPages >= max_pages
        \/ served # << >> /\ ParsedHits(Last(served)) = << >>

---------------------------------------------------------------------------
(* C7 *)

\* C7: each non-empty listing identifier appears at most once in the output
\* of a run: in the hits of a batch result, and across the hits of all page
\* events of one stream.
C7_UniqueIds ==
    /\ mode = "batch" => NoDuplicateId(hits) /\ NoDuplicateId(result.hits)
    /\ mode = "stream" => NoDuplicateId(EventHits(sent))

---------------------------------------------------------------------------
(* C6 *)

EarlierSameId(i) == \E j \in 1..(i - 1) : calls[j].hit.id = calls[i].hit.id
IsAccepted(c) == c.ok
AcceptedHits == LET acc == SelectSeq(calls, IsAccepted)
                IN  [i \in 1..Len(acc) |-> acc[i].hit]

C6_State ==
    /\ \A i \in 1..Len(calls) :
          calls[i].ok <=> (calls[i].hit.id = 0 \/ ~EarlierSameId(i))
    /\ hits = AcceptedHits
    /\ seen_ids = {calls[i].hit.id : i \in 1..Len(calls)} \ {0}

C6_Step ==
    (calls' # calls /\ ~calls'[Len(calls')].ok)
        => (hits' = hits /\ seen_ids' = seen_ids)

\* C6: in any sequence of register_hit calls on one register, a hit with a
\* non-empty identifier is accepted iff no earlier hit of the sequence had
\* that identifier, a hit with the empty identifier is always accepted, the
\* output is exactly the accepted hits in call order, and a rejected call
\* changes neither the output nor the seen set.
C6_DedupRegister == [](mode = "register" => C6_State) /\ [][C6_Step]_vars

\* a repeated identifier was rejected, a repeated empty identifier accepted
C6_Witness ==
    /\ mode = "register"
    /\ \E i \in 1..Len(calls) : ~calls[i].ok
    /\ \E i, j \in 1..Len(calls) :
          i < j /\ calls[i].hit.id = 0 /\ calls[j].hit.id = 0 /\ calls[j].ok

---------------------------------------------------------------------------
(* C8 *)

HostNotAllowed ==
    start_url.parsed /\ start_url.host # "" /\ start_url.host \notin ALLOWED

\* C8: a run, batch or streaming, whose start URL has a host outside the
\* allow-list issues no network request at all (no robots.txt fetch, no
\* warmup, no page fetch) and fails with the domain-not-allowed error.
C8_DisallowedHost ==
    (mode \in {"batch", "stream"} /\ HostNotAllowed) =>
        /\ NoRequest
        /\ pc # "start" =>
              /\ RunError = "domain not in whitelist"
              /\ pc \in {"failed", "send", "end"}
              /\ mode = "stream" => after = "end" /\ sent \in
                     {<< >>, << ErrorEvent("domain not in whitelist") >>}

\* both crawls have refused a disallowed host
C8_Witness ==
    /\ HostNotAllowed /\ RunEnded /\ NoRequest
    /\ RunError = "domain not in whitelist"
    /\ mode = "stream" => Len(sent) = 1

---------------------------------------------------------------------------
(* C9 *)


\* C9: the policy document is fetched at most once per run and before any
\* warmup or page fetch; a run whose URL is invalid, has no host or a host
\* outside the allow-list, or whose policy disallows the URL, ends in failure
\* with that error of the gate, having issued no warmup and no page fetch.
C9_GateOnce ==
    mode \in {"batch", "stream"} =>
        /\ nRobots <= 1
        /\ (nWarmup > 0 \/ nFetch > 0) =>
              /\ nRobots = 1
              /\ robotsOut \in {"net_error", "answered"}
              /\ ~GateFailed
        /\ (pc # "start" /\ ~start_url.parsed) =>
              RunError \in {"invalid url", "url parse error"} /\ nRobots = 0
        /\ (pc # "start" /\ start_url.parsed /\ start_url.host = "") =>
              RunError = "url has no host" /\ nRobots = 0
        /\ (pc # "start" /\ HostNotAllowed) =>
              RunError = "domain not in whitelist" /\ nRobots = 0
        /\ robotsOut = "disallow" => RunError = RobotsError
        /\ GateFailed =>
              /\ nWarmup = 0 /\ nFetch = 0 /\ pages = 0
              /\ pc \in {"failed", "send", "end"}
              /\ mode = "stream" => after = "end"

\* the policy was fetched once and disallowed the URL; the run has ended
C9_Witness ==
    /\ robotsOut = "disallow" /\ RunEnded /\ nRobots = 1
    /\ RunError = RobotsError /\ nWarmup = 0 /\ nFetch = 0

---------------------------------------------------------------------------
(* C10 *)

\* C10: when the robots.txt request fails at the network level the gate lets
\* the run through: with a page cap of at least 1 the first page is warmed up
\* and fetched, and the run never carries an error of the gate; a failed
\* warmup is followed by the page fetch (first attempt, Desktop profile) and
\* puts no error in the result or in an event.
C10_FailOpen ==
    mode \in {"batch", "stream"} =>
        /\ robotsOut = "net_error" =>
              /\ ~GateFailed
              /\ RunError \in FetchErrors \cup {NoErr}
              /\ pc \notin {"start", "robots"}
              /\ (max_pages >= 1 /\ pc # "loop" /\ ~(pc = "send" /\ pending.type = "start"))
                    => (nWarmup >= 1 /\ pages >= 1
                        /\ (pc # "warmup" => nFetch >= 1))
              /\ pages = 1 =>
                    page_url = build_page_url(base,
                                   normalize_pager(start_url).start_page)
        /\ warmFailed =>
              /\ pc = "fetch" /\ attempts = 1 /\ profile = "Desktop"
              /\ nFetch = nWarmup /\ nFetch = pages
              /\ RunError = NoErr
              /\ result = NoResult
              /\ \A i \in 1..Len(sent) : sent[i].type # "error"

\* the robots.txt request failed, so did the warmup of page 1, and the page
\* request is in flight
C10_Witness ==
    robotsOut = "net_error" /\ warmFailed /\ pc = "fetch" /\ pages = 1

---------------------------------------------------------------------------
(* C11 *)

\* the answer of an attempt is a body longer than 4000 with the marker
GoodAnswer(c) ==
    /\ c.resp.kind = "ok"
    /\ c.resp.body.len > MIN_BODY_LEN /\ c.resp.body.marker

\* C11: one call of retry_fetch_html issues between 1 and 5 requests; no
\* request follows an attempt with a valid answer, whose markup is returned;
\* the call fails exactly when 5 attempts have been answered and none was
\* valid; every attempt that was not accepted slept one backoff, an accepted
\* one none.
C11_RetryBound ==
    mode = "fetch" =>
        /\ pc # "call" => (attempts >= 1 /\ attempts <= MAX_ATTEMPTS)
        /\ attempts = Len(calls) + (IF pc = "fetch" THEN 1 ELSE 0)
        /\ \A i \in 1..Len(calls) :
              /\ calls[i].n = i
              /\ GoodAnswer(calls[i]) => (i = Len(calls) /\ pc = "fetched")
              /\ calls[i].backoff = ~GoodAnswer(calls[i])
        /\ pc = "fetched" =>
              /\ calls # << >> /\ GoodAnswer(Last(calls))
              /\ html = Last(calls).resp.body.doc
        /\ pc = "fetch_err" <=>
              /\ Len(calls) = MAX_ATTEMPTS
              /\ \A i \in 1..Len(calls) : ~GoodAnswer(calls[i])

\* the fifth attempt is accepted after two transport errors and two rejected
\* bodies
C11_Witness ==
    /\ mode = "fetch" /\ pc = "fetched" /\ Len(calls) = MAX_ATTEMPTS
    /\ calls[1].resp.kind = "err" /\ calls[2].resp.kind = "ok"
    /\ calls[3].resp.kind = "err" /\ calls[4].resp.kind = "ok"

---------------------------------------------------------------------------
(* C12 *)

ProfileOf(n) == IF n % 2 = 1 THEN "Desktop" ELSE "Mobile"

\* C12: within one call of retry_fetch_html attempt n is sent with the
\* Desktop profile when n is odd and with the Mobile profile when n is even,
\* whatever the earlier attempts were answered with (rejected body or
\* transport error).
C12_Alternation ==
    mode = "fetch" =>
        /\ \A i \in 1..Len(calls) : calls[i].profile = ProfileOf(i)
        /\ pc = "fetch" => profile = ProfileOf(attempts)

---------------------------------------------------------------------------
(* C13 *)

\* C13: retry_fetch_html returns a body only if it is longer than 4000 and
\* has the marker; a body of length 4000 or less, or one without the marker,
\* is rejected (the call backs off and does not return it), and an answer is
\* accepted or rejected by its body alone, with any HTTP status.
C13_Validity ==
    mode = "fetch" =>
        /\ pc = "fetched" =>
              /\ Last(calls).resp.kind = "ok"
              /\ Last(calls).resp.body.len > MIN_BODY_LEN
              /\ Last(calls).resp.body.marker
              /\ html = Last(calls).resp.body.doc
        /\ \A i \in 1..Len(calls) :
              LET c == calls[i]
              IN  c.resp.kind = "ok" =>
                      /\ (c.resp.body.len <= MIN_BODY_LEN \/ ~c.resp.body.marker)
                            => (c.backoff /\ ~(i = Len(calls) /\ pc = "fetched"))
                      /\ \A st \in HttpStatuses :
                            retry_fetch_html(c.n, c.profile, None,
                                             Response(st, c.resp.body)).status = "ok"
                                <=> ~c.backoff

\* a body of length 4000 with the marker, a longer one without it and a
\* short one with it were rejected with status 200, then a body with status
\* 403 was returned
C13_Witness ==
    /\ mode = "fetch" /\ pc = "fetched" /\ Len(calls) = 4
    /\ calls[1].resp = Response(200, Body(MIN_BODY_LEN, TRUE, << >>))
    /\ calls[2].resp = Response(200, Body(MIN_BODY_LEN + 1, FALSE, << >>))
    /\ calls[3].resp = Response(200, Body(1, TRUE, << >>))
    /\ calls[4].resp.status = 403

---------------------------------------------------------------------------
(* C14 *)

IsFetchError(ev) == ev.type = "error" /\ ev.error \in FetchErrors
IsDone(ev) == ev.type = "done"

\* what holds of a run whose fetch of page k = pages failed
C14_State ==
    /\ (mode = "batch" /\ pc = "failed" /\ result.error \in FetchErrors) =>
          /\ result = Failure(fetch_error)
          /\ result.hits = << >>
          /\ nWarmup = pages /\ nFetch = pages /\ Len(served) = pages - 1
    /\ mode = "stream" =>
          /\ \A i \in 1..Len(sent) :
                IsFetchError(sent[i]) =>
                    /\ i = Len(sent) /\ pc = "end"
                    /\ sent[1].type = "start"
                    /\ \A j \in 2..(i - 1) : IsPage(sent[j])
                    /\ SelectSeq(sent, IsDone) = << >>
          /\ (StreamEnded /\ FetchFailed) =>
                /\ nWarmup = pages /\ nFetch = pages /\ Len(served) = pages - 1
                /\ rx_open => /\ Last(sent) = ErrorEvent(fetch_error)
                              /\ NPages(sent) = pages - 1
                              /\ Len(sent) = pages + 1

\* C14: when the fetch of page k fails for good, the batch call returns the
\* error alone, without any of the hits of pages 1..k-1; the stream keeps the
\* start event and the k-1 page events as they were sent, sends one error
\* event after them and no done event, and the run fetches no further page.
C14_FatalFetch ==
    /\ []C14_State
    /\ [][Len(sent') >= Len(sent) /\ SubSeq(sent', 1, Len(sent)) = sent]_vars

\* a batch run that had hits of page 1 failed on page 2 and returned none
C14_Witness ==
    /\ mode = "batch" /\ pc = "failed" /\ result.error \in FetchErrors
    /\ pages = 2 /\ hits # << >> /\ result.hits = << >>

---------------------------------------------------------------------------
(* C15 *)

\* the warmups and page fetches a producer may have issued when its consumer
\* is gone: none before the start event was accepted, else those of the
\* pages whose events were accepted and of the one page in progress
FetchesOwed == IF sent = << >> THEN 0 ELSE NPages(sent) + 1

\* C15: once the consumer is gone, the producer issues no warmup and no page
\* fetch after its next send: it has issued at most those of the pages whose
\* events the channel accepted and of the one page it was working on.
C15_StopOnDisconnect ==
    (mode = "stream" /\ ~rx_open) =>
        (nWarmup <= FetchesOwed /\ nFetch <= FetchesOwed)

---------------------------------------------------------------------------
(* C16 *)

\* the channel is within its capacity, and what the consumer has taken
\* followed by what the channel holds is what the producer sent: start, then
\* the pages from page 1 on, one by one
C16_State ==
    mode = "stream" =>
        /\ Len(chan) <= CHANNEL_CAPACITY
        /\ rx_open =>
              /\ received \o chan = sent
              /\ \A i \in 2..Len(sent) : IsPage(sent[i]) => sent[i].page = i - 1
        /\ (StreamEnded /\ rx_open /\ chan = << >>) => received = sent

\* a producer at a send on a full channel
ProducerWaits ==
    mode = "stream" /\ rx_open /\ pc = "send" /\ Len(chan) = CHANNEL_CAPACITY

\* C16: the channel never holds more than 32 events; a producer whose send
\* finds it full stays in that send, issuing no warmup and no page fetch,
\* until the consumer takes an event (or goes away); while the consumer is
\* connected it has received, in order, every event sent except those still
\* in the channel.
C16_Backpressure ==
    /\ []C16_State
    /\ [][ProducerWaits =>
            /\ nWarmup' = nWarmup /\ nFetch' = nFetch /\ pages' = pages
            /\ sent' = sent
            /\ rx_open' => (pc' = "send" /\ Len(chan') = CHANNEL_CAPACITY - 1)]_vars

\* the channel is full and the producer waits with the next page event
C16_Witness ==
    /\ ProducerWaits /\ IsPage(pending)
    /\ Len(received) = 1 /\ Len(sent) = CHANNEL_CAPACITY + 1

---------------------------------------------------------------------------
(* C17 *)

IsPageKey(kv) == kv.k = "page"
\* the page parameters of a URL, as a reader of the query sees them
PageParams(url) == SelectSeq(QueryPairs(url.query), IsPageKey)

\* the page number a page value stands for: zero and what is no number
\* stand for page 1
PageNumber(v) == IF ParseUsize(v) >= 0 THEN Max(ParseUsize(v), 1) ELSE 1

\* the page numbers the page parameters of a URL stand for, each value read
\* as written or decoded; page 1 when the URL has no page parameter
PageNumbers(url) ==
    LET q == url.query
        nums == {PageNumber(v) :
                    v \in UNION {{q[i].v, Decode(q[i].v)} :
                            i \in {j \in 1..Len(q) : Decode(q[j].k) = "page"}}}
    IN  IF nums = {} THEN {1} ELSE nums

\* C17: for every URL, build_page_url(base, start) with (base, start) =
\* normalize_pager(url) has exactly one page parameter, and its value is at
\* least 1 and is the page number of a page parameter of the URL (page 1
\* when the URL has none, or for a value that is zero or no number), also
\* when the page key is percent-encoded.
C17_PagerRoundTrip ==
    (mode = "pager" /\ pc = "built"
        /\ calls[1].base = base /\ calls[1].p = page) =>
        /\ Len(PageParams(page_url)) = 1
        /\ ParseUsize(PageParams(page_url)[1].v) >= 1
        /\ ParseUsize(PageParams(page_url)[1].v) \in PageNumbers(start_url)

---------------------------------------------------------------------------
(* C18 *)

OtherParams(url) == SelectSeq(QueryPairs(url.query), NotPageKey)
OutsideQuery(url) == [url EXCEPT !.query = << >>]

\* C18: build_page_url(b, p) has the non-page parameters of b, with their
\* keys and values and in their order, for every p, and differs from b in
\* the query alone; the base of normalize_pager(url) has the parameters of
\* url that are not page parameters, in their order, and no other, and
\* differs from url in the query alone.
C18_Frame ==
    mode = "pager" =>
        /\ pc \in {"build", "built"} =>
              /\ QueryPairs(base.query) = OtherParams(start_url)
              /\ OutsideQuery(base) = OutsideQuery(start_url)
        /\ pc = "built" =>
              /\ OtherParams(page_url) = OtherParams(calls[1].base)
              /\ OutsideQuery(page_url) = OutsideQuery(calls[1].base)

\* page 3 was built on a URL with the parameters q=x and page=2
C18_Witness ==
    /\ mode = "pager" /\ pc = "built"
    /\ start_url.query = << Pair("q", "x"), Pair("page", "2") >>
    /\ calls[1].base = start_url /\ calls[1].p = 3
    /\ OtherParams(page_url) = << Pair("q", "x") >>

---------------------------------------------------------------------------
(* C19 *)

\* C19: when normalize_price gives a number v for a raw price text, then
\* normalize_price of the decimal text of v (digits, with a period before
\* the decimals) gives v again.
C19_Idempotent ==
    (mode = "price" /\ pc = "again") => calls[2].ret.n = calls[1].ret.n

---------------------------------------------------------------------------
(* C20 *)

\* C20: in every hit parse_card returns, price_per_m2 is present exactly
\* when price_numeric is present and sqm is present and greater than zero,
\* and is then price_numeric / sqm; a description without a number, or with
\* the number zero or a negative one, gives no price_per_m2.
C20_PricePerM2 ==
    (mode = "card" /\ pc = "parsed" /\ calls[1].ret # None) =>
        LET h == calls[1].ret[1]
        IN  /\ h.price_per_m2 # None <=>
                  (h.price_numeric # None /\ h.sqm # None /\ h.sqm[1].m > 0)
            /\ h.price_per_m2 # None =>
                  h.price_per_m2[1] = Ratio(h.price_numeric[1], h.sqm[1])
            /\ (h.sqm = None \/ h.sqm[1].m <= 0) => h.price_per_m2 = None

\* price 5 and area 2 give the ratio 5 / 2
C20_Witness ==
    /\ mode = "card" /\ pc = "parsed" /\ calls[1].ret # None
    /\ calls[1].arg.raw_price = << "5", "€" >>
    /\ calls[1].arg.desc_li = Some(<< "2" >>)
    /\ calls[1].ret[1].price_per_m2 = Some(Ratio(Num(5, 0), Num(2, 0)))

---------------------------------------------------------------------------
(* C21 *)

\* a page fetch is in progress or has just returned
Fetching == pc \in {"fetch", "fetched", "fetch_err"}

\* the referer of the fetch of the first page is the origin, that of a later
\* page the URL of the page before it, which is also the URL of the last
\* page event of a stream
C21_State ==
    Fetching =>
        /\ page_url = build_page_url(base, page)
        /\ pages = 1 => referer = origin
        /\ pages >= 2 =>
              /\ referer = build_page_url(base, page - 1)
              /\ prev_page_url = Some(referer)
              /\ (mode = "stream" /\ rx_open) =>
                    referer = Last(SelectSeq(sent, IsPage)).url

\* C21: the fetch of the first page carries the origin as referer in all of
\* its attempts, the fetch of each later page the URL of the page fetched
\* immediately before it; the recorded previous-page URL changes only after
\* a page has been fetched successfully with at least one record, and then
\* to the URL of that page.
C21_RefererChain ==
    /\ []C21_State
    /\ [][/\ pc = "fetch" => referer' = referer
          /\ prev_page_url' # prev_page_url =>
                /\ Len(served) = pages
                /\ ParsedHits(Last(served)) # << >>
                /\ prev_page_url' = Some(page_url)]_vars

\* the second attempt of the second page of a crawl that began at page 2
C21_Witness ==
    /\ pc = "fetch" /\ pages = 2 /\ attempts = 2 /\ page = 3
    /\ referer = build_page_url(base, 2) /\ referer # origin

---------------------------------------------------------------------------
(* C22 *)

\* one warmup per page, to the origin, as Desktop, with the origin as
\* referer; it is awaited with the page URL built and no attempt made yet
C22_State ==
    /\ nWarmup = pages
    /\ nFetch = (IF pc = "warmup" THEN pages - 1 ELSE pages)
    /\ nWarmup >= 1 => warm_req = Get(origin, "Desktop", origin)
    /\ pc = "warmup" => (page_url = build_page_url(base, page) /\ attempts = 0)

\* C22: every page fetch is preceded by exactly one warmup request to the
\* origin, made with the Desktop profile and the origin as referer, after
\* the page URL is built and before the first attempt for that page, so the
\* warmups of a run are as many as its pages_visited; the page fetch that
\* follows is issued in the same way whether the warmup succeeded or failed.
C22_Warmup ==
    /\ []C22_State
    /\ [][/\ nWarmup' # nWarmup =>
                (nWarmup' = nWarmup + 1 /\ pc' = "warmup" /\ nFetch = nWarmup)
          /\ nFetch' # nFetch =>
                (nFetch' = nFetch + 1 /\ pc = "warmup" /\ nWarmup = nFetch')
          /\ (pc = "warmup" /\ pc' # "warmup") =>
                /\ pc' = "fetch" /\ attempts' = 1 /\ profile' = "Desktop"
                /\ page_url' = page_url
                /\ referer' = (IF prev_page_url = None THEN origin
                               ELSE prev_page_url[1])]_vars

\* the first attempt of page 2 is in flight after a warmup that failed
C22_Witness ==
    /\ pc = "fetch" /\ warmFailed /\ attempts = 1 /\ profile = "Desktop"
    /\ pages = 2 /\ nWarmup = 2 /\ nFetch = 2
    /\ warm_req = Get(origin, "Desktop", origin)

---------------------------------------------------------------------------
(* C23 *)

\* the pages fetched, parsed and handed on so far, against the pages begun:
\* the one page in progress is the only one not yet done
C23_State ==
    /\ nFetch - Len(served) \in {0, 1}
    /\ pc = "warmup" => (Len(served) = pages - 1 /\ Len(counts) = pages - 1)
    /\ pc = "fetch" =>
          (nFetch = pages /\ Len(served) = pages - 1 /\ Len(counts) = pages - 1)
    /\ pc = "fetched" => (Len(served) = pages /\ Len(counts) = pages - 1)
    /\ pc \in {"loop", "after_page"} =>
          (Len(served) = pages /\ Len(counts) = pages /\ attempts = 0)
    /\ mode = "batch" => Len(hits) = SumTo(counts, Len(counts))
    /\ (mode = "stream" /\ rx_open) =>
          NPages(sent) = Len(counts) - (IF pc = "send" /\ IsPage(pending)
                                        THEN 1 ELSE 0)

\* C23: at most one page fetch is in progress at any time; a page is fetched,
\* then parsed, then registered (batch) or emitted (streaming), and only
\* then is the URL of the next page constructed and a request for it made.
C23_Sequential ==
    /\ []C23_State
    /\ [][/\ (page_url' # page_url \/ pages' # pages) =>
                /\ pages' = pages + 1 /\ page_url' = build_page_url(base, page)
                /\ attempts = 0 /\ nFetch = pages /\ nWarmup = pages
                /\ Len(served) = pages /\ Len(counts) = pages
                /\ mode = "batch" => Len(hits) = SumTo(counts, pages)
                /\ (mode = "stream" /\ rx_open) => NPages(sent) = pages
          /\ served' # served =>
                (pc = "fetch" /\ pc' = "fetched" /\ Len(served) = pages - 1)
          /\ counts' # counts =>
                (pc = "fetched" /\ Len(served) = pages /\ Len(counts) = pages - 1)
         ]_vars

\* the URL of page 2 of a stream has been built, page 1 is with the consumer
C23_Witness ==
    /\ mode = "stream" /\ rx_open /\ pc = "warmup" /\ pages = 2
    /\ Len(served) = 1 /\ counts = << 1 >> /\ NPages(sent) = 1
    /\ page_url = build_page_url(base, page) /\ page_url # sent[2].url

---------------------------------------------------------------------------
(* C24 *)

\* a run on its own, from locals `run`, given the documents docs one by one,
\* as far as its next page request
RECURSIVE Alone(_, _)
Alone(run, docs) ==
    IF run.pc = "loop" THEN Alone(RunHead(run), docs)
    ELSE IF run.pc = "fetch" /\ docs # << >>
         THEN Alone(RunPage(run, Head(docs), run.seen_ids), Tail(docs))
         ELSE run

\* the non-empty identifiers of the cards of docs[1..k]
IdsServed(docs, k) ==
    UNION {{docs[i][j].hit.id : j \in 1..Len(docs[i])} : i \in 1..k} \ {0}

\* a batch run holds among its hits every card it was served whose
\* identifier no earlier page of its own carried
NoLostHit(run) ==
    \A k \in 1..Len(run.served) :
        (run.served[k] # << >>
            /\ run.served[k][1].hit.id \notin IdsServed(run.served, k - 1))
        => \E i \in 1..Len(run.hits) : run.hits[i] = run.served[k][1].hit

\* C24: of runs that execute concurrently, in any interleaving, each has the
\* locals (pager state, seen set, hits, counters, events on its own channel,
\* result) it would have had alone with the same documents; an identifier
\* registered by one run does not keep a hit out of another run.
C24_Isolation ==
    mode = "runs" =>
        \A r \in RunIds :
            LET solo == Alone(NewRun(runs[r].mode, runs[r].max_pages),
                              runs[r].served)
            IN  /\ runs[r].pc # "loop" => runs[r] = solo
                /\ runs[r].pc = "loop" => RunHead(runs[r]) = solo
                /\ runs[r].mode = "batch" => NoLostHit(runs[r])

\* two batch runs have ended after two pages, each with the hit of
\* identifier 1 that both were served
C24_Witness ==
    /\ mode = "runs"
    /\ runs["a"].mode = "batch" /\ runs["b"].mode = "batch"
    /\ runs["a"].pc = "done" /\ runs["b"].pc = "done"
    /\ runs["a"].result.hits = << Hit(1, 1) >>
    /\ runs["b"].result.hits = << Hit(1, 1) >>
    /\ runs["a"].result.meta.page_count = 2

---------------------------------------------------------------------------
(* C25 *)

\* the hit counts the events carry
CountsOf(evs) == [i \in 1..Len(evs) |-> evs[i].count]

\* C25: in a stream every page event carries as count the number of its
\* hits and as running total the sum of the counts of the page events up to
\* and including it; the k-th page event carries page start_page + k - 1
\* and the URL build_page_url(base, that page); a done event carries as
\* pages the number of page events sent and as total_hits the last running
\* total, 0 when no page event was sent.
C25_Counters ==
    mode = "stream" =>
        LET pgs == SelectSeq(sent, IsPage)
            np  == normalize_pager(start_url)
        IN  /\ \A k \in 1..Len(pgs) :
                  /\ pgs[k].count = Len(pgs[k].hits)
                  /\ pgs[k].total = SumTo(CountsOf(pgs), k)
                  /\ pgs[k].page = np.start_page + k - 1
                  /\ pgs[k].url = build_page_url(np.base, pgs[k].page)
            /\ \A i \in 1..Len(sent) :
                  IsDone(sent[i]) =>
                      /\ sent[i].pages = Len(pgs)
                      /\ sent[i].total = (IF pgs = << >> THEN 0
                                          ELSE Last(pgs).total)

\* a stream that began at page 2 has sent two page events of one hit each
\* and the done event of two pages and two hits
C25_Witness ==
    /\ mode = "stream" /\ pc = "end" /\ NPages(sent) = 2 /\ Len(sent) = 4
    /\ sent[2].page = 2 /\ sent[2].total = 1 /\ sent[3].page = 3
    /\ sent[3].count = 1 /\ sent[3].total = 2
    /\ Last(sent) = DoneEvent(2, 2)

---------------------------------------------------------------------------
(* C26 *)

\* C26: on the same start URL, page cap and feed the batch run and the
\* streaming run make the same page fetches and end alike: batch returns an
\* error exactly when the stream ends with an error event, and else its
\* pages_visited and total_hits are the pages and total_hits of the done
\* event and its hits the hits of the page events, one after the other.
C26_ModeEquivalence ==
    (mode = "modes" /\ runs["a"].pc = "done" /\ runs["b"].pc = "done") =>
        LET b == runs["a"]
            s == runs["b"]
        IN  /\ b.pages = s.pages /\ b.served = s.served
            /\ b.result.status = "err" <=> Last(s.sent).type = "error"
            /\ b.result.status = "ok" =>
                  /\ IsDone(Last(s.sent))
                  /\ b.result.meta.page_count = Last(s.sent).pages
                  /\ b.result.meta.total_hits = Last(s.sent).total
                  /\ b.result.hits = EventHits(s.sent)

---------------------------------------------------------------------------
(* C27 *)

\* C27: a batch run that ends well returns as total_hits the length of its
\* hit sequence and as page_count the pages it fetched; its next_url is
\* absent when no page was fetched or when the last page fetched added no
\* record, and else, the run being stopped by the cap after a page that
\* added records, it is build_page_url(base, start_page + pages_visited).
C27_CrawlOutcome ==
    (mode = "batch" /\ pc = "done") =>
        LET np == normalize_pager(start_url)
            m  == result.meta
        IN  /\ result.status = "ok"
            /\ m.total_hits = Len(result.hits)
            /\ m.page_count = Len(served) /\ Len(counts) = Len(served)
            /\ (served = << >> \/ Last(counts) = 0) => m.next_url = None
            /\ served = << >> => max_pages = 0
            /\ (served # << >> /\ Last(counts) > 0) =>
                  /\ m.page_count = max_pages
                  /\ m.next_url =
                        Some(build_page_url(np.base,
                                            np.start_page + m.page_count))

\* a run from page 2 with cap 2 has ended after two pages with records and
\* names page 4 as the next
C27_Witness ==
    /\ mode = "batch" /\ pc = "done" /\ max_pages = 2
    /\ result.meta.page_count = 2 /\ Len(result.hits) = 2
    /\ normalize_pager(start_url).start_page = 2
    /\ result.meta.next_url = Some(build_page_url(base, 4))

---------------------------------------------------------------------------
(* C28 *)

\* the attempts of the call that ended in a transport error
TransportFailures == {i \in 1..Len(calls) : calls[i].resp.kind = "err"}

\* the greatest member of a non-empty set of numbers
Greatest(S) == CHOOSE i \in S : \A j \in S : j <= i

\* C28: when retry_fetch_html has used up its 5 attempts, the error it
\* returns is the transport error of the last attempt that failed at
\* transport level, also when later attempts were answered with a body that
\* was rejected; it is `failed to fetch page after retries` only when no
\* attempt had a transport error.
C28_FailureReason ==
    (mode = "fetch" /\ pc = "fetch_err") =>
        /\ Len(calls) = MAX_ATTEMPTS
        /\ TransportFailures # {} =>
              fetch_error = calls[Greatest(TransportFailures)].resp.error
        /\ TransportFailures = {} =>
              fetch_error = "failed to fetch page after retries"
        /\ fetch_error = "failed to fetch page after retries" =>
              TransportFailures = {}

\* two different transport errors, then three rejected bodies: the call
\* failed with the second transport error
C28_Witness ==
    /\ mode = "fetch" /\ pc = "fetch_err"
    /\ calls[1].resp = Failed("connection reset")
    /\ calls[2].resp = Failed("operation timed out")
    /\ TransportFailures = {1, 2}
    /\ fetch_error = "operation timed out"

---------------------------------------------------------------------------
(* C29 *)

\* the requests of a run are within its cap: at most max_pages warmups and
\* calls of retry_fetch_html, each of at most 5 attempts; the page being
\* fetched is the start page plus the pages begun before it
C29_State ==
    /\ nWarmup <= max_pages /\ nFetch <= max_pages
    /\ attempts <= MAX_ATTEMPTS
    /\ nFetch >= 1 =>
          MAX_ATTEMPTS * (nFetch - 1) + attempts <= MAX_ATTEMPTS * max_pages
    /\ (pc = "warmup" \/ Fetching) =>
          page = normalize_pager(start_url).start_page + pages - 1

\* C29: when every request returns and the consumer of a stream keeps
\* reading, every run ends, well or with an error, having issued at most c
\* warmups and at most 5 * c page requests under page cap c; the page
\* counter never decreases and every page begun has a page number above
\* those of the pages begun before it.
C29_Termination ==
    /\ <>RunEnded
    /\ []C29_State
    /\ [][/\ pages' >= pages /\ page' >= page
          /\ pages' # pages =>
                /\ pages' = pages + 1
                /\ page' = normalize_pager(start_url).start_page + pages
          /\ RunEnded => (RunEnded' /\ pages' = pages /\ nFetch' = nFetch)]_vars

\* a run has ended well at its cap of two pages
C29_Witness ==
    /\ RunEnded /\ EndedOk /\ max_pages = 2 /\ pages = 2
    /\ nWarmup = 2 /\ nFetch = 2 /\ Len(served) = 2
====
